---- MODULE Spec2Model ----
\* Verification model of burst2safe: the list merger (base.ListOfListElements),
\* the burst group validators (Swath.check_burst_group_validity,
\* Safe.check_group_validity) and the product annotation assembler
\* (base.Annotation, product.Product).
\*
\* Times are integers (ticks).  An XML element of a merged list is a record
\* with its timestamp `time`, its `line` child when the list is line-indexed,
\* and `src`, the position of its source in the caller's list (the rest of
\* the element's content, carried unchanged by deepcopy).
EXTENDS Integers, Sequences, FiniteSets, TLC

VARIABLES
    inputs,        \* ListOfListElements(inputs, ...): the caller's source lists
    start_line,    \* ... start_line: None or an integer
    slc_lengths,   \* ... slc_lengths: None or one declared length per source
    lol,           \* the ListOfListElements object (or the error of __init__)
    ret,           \* the last call made on the object and what it returned
    burst_infos,   \* the bursts handed to a group validator
    check,         \* the outcome of the last group validation
    slcs,          \* the source SLC annotation documents of a product
    product,       \* the Product annotation object
    bid,           \* a call of calculate_burstid: its arguments and its outcome
    heap,          \* the XML elements in memory and the merges made over them
    stack,         \* a run of burst2stack: its position and what it has done
    writer,        \* a Swath being written: the product, the raster, the files
    grouped,       \* a call that groups bursts by swath and polarization
    noise,         \* a noise azimuth vector and the update made to it
    swath,         \* a Swath: its IPF version and its annotations
    search,        \* a call of add_surrounding_bursts and the range it requests
    dl             \* a run of download_async: the queue and both coroutines

vars == <<inputs, start_line, slc_lengths, lol, ret, burst_infos, check, slcs, product, bid,
          heap, stack, writer, grouped, noise, swath, search, dl>>

mergerVars == <<inputs, start_line, slc_lengths, lol, ret>>
groupVars == <<burst_infos, check>>
productVars == <<slcs, product>>
burstIdVars == <<bid>>
heapVars == <<heap>>
stackVars == <<stack>>
writerVars == <<writer>>
groupedVars == <<grouped>>
noiseVars == <<noise>>
swathVars == <<swath>>
searchVars == <<search>>
dlVars == <<dl>>

\* What the operations of one part of the program leave alone
outsideMerger ==
    <<groupVars, productVars, burstIdVars, heapVars, stackVars, writerVars,
      groupedVars, noiseVars, swathVars, searchVars, dlVars>>
outsideGroup ==
    <<mergerVars, productVars, burstIdVars, heapVars, stackVars, writerVars,
      groupedVars, noiseVars, swathVars, searchVars, dlVars>>
outsideProduct ==
    <<mergerVars, groupVars, burstIdVars, heapVars, stackVars, writerVars,
      groupedVars, noiseVars, swathVars, searchVars, dlVars>>
outsideBurstId ==
    <<mergerVars, groupVars, productVars, heapVars, stackVars, writerVars,
      groupedVars, noiseVars, swathVars, searchVars, dlVars>>
outsideHeap ==
    <<lol, ret, groupVars, productVars, burstIdVars, stackVars, writerVars,
      groupedVars, noiseVars, swathVars, searchVars, dlVars>>
outsideStack ==
    <<mergerVars, groupVars, productVars, burstIdVars, heapVars, writerVars,
      groupedVars, noiseVars, swathVars, searchVars, dlVars>>
outsideGrouped ==
    <<mergerVars, groupVars, productVars, burstIdVars, heapVars, stackVars, writerVars,
      noiseVars, swathVars, searchVars, dlVars>>
outsideNoise ==
    <<mergerVars, groupVars, productVars, burstIdVars, heapVars, stackVars, writerVars,
      groupedVars, swathVars, searchVars, dlVars>>
outsideSwath ==
    <<mergerVars, groupVars, productVars, burstIdVars, heapVars, stackVars, writerVars,
      groupedVars, noiseVars, searchVars, dlVars>>
outsideSearch ==
    <<mergerVars, groupVars, productVars, burstIdVars, heapVars, stackVars, writerVars,
      groupedVars, noiseVars, swathVars, dlVars>>
outsideDl ==
    <<mergerVars, groupVars, productVars, burstIdVars, heapVars, stackVars, writerVars,
      groupedVars, noiseVars, swathVars, searchVars>>
outsideWriter ==
    <<mergerVars, groupVars, burstIdVars, heapVars, stackVars,
      groupedVars, noiseVars, swathVars, searchVars, dlVars>>

-----------------------------------------------------------------------------
\* Bounds of the model

MaxTime == 3          \* timestamps of synthetic sources are 1..MaxTime
MaxSources == 3       \* number of source lists handed to the merger
MaxStartLine == 1     \* start_line is None or 0..MaxStartLine
MaxBuffer == 1        \* time buffers are 0..MaxBuffer
MaxLineBound == 2     \* line windows are [lo, hi] with 0 <= lo <= hi <= MaxLineBound
MaxBursts == 2        \* bursts handed to Swath.check_burst_group_validity
MaxGranule == 2       \* granule names are 1..MaxGranule
MaxOrbit == 2         \* absolute orbits are 1..MaxOrbit
MaxBurstId == 3       \* burst IDs are 1..MaxBurstId
MaxSafeBursts == 4    \* bursts handed to Safe.check_group_validity
MaxSlcs == 3          \* consecutive source SLCs of one swath and polarization
MaxBurstsPerSlc == 3  \* bursts per source SLC are 1..MaxBurstsPerSlc
LinesPerBurst == 32   \* linesPerBurst of the SLCs; one tick of time is one line
BurstPeriod == 28     \* ticks between the starts of consecutive bursts
MaxPixel == 1         \* the grid points of a row have pixel 0..MaxPixel
MaxGridCalls == 2     \* calls of create_geolocation_grid on one Product
MaxImageNumber == 10  \* image numbers handed to an annotation are 0..MaxImageNumber
MaxSubswathLen == 3   \* subswath names have 0..MaxSubswathLen characters
MaxBeamCycles == 3    \* sensing times lie up to MaxBeamCycles beam cycles after the preamble

-----------------------------------------------------------------------------
\* Python values

None == <<>>
Some(x) == <<x>>
IsNone(o) == o = <<>>
Unwrap(o) == o[1]

Ok(v) == [status |-> "ok", value |-> v]
Raise(kind, msg) == [status |-> kind, msg |-> msg]

\* F applied to the value of v: a Python assignment `x = v` followed by the
\* statements F that read x
Bind(v, F(_)) == CHOOSE r \in {F(x) : x \in {v}} : TRUE

MinOf(S) == CHOOSE x \in S : \A y \in S : x <= y
MaxOf(S) == CHOOSE x \in S : \A y \in S : x >= y
Range(s) == {s[i] : i \in DOMAIN s}
Times(source) == {source[i].time : i \in DOMAIN source}

RECURSIVE SumTo(_, _)
SumTo(s, n) == IF n = 0 THEN 0 ELSE s[n] + SumTo(s, n - 1)

RECURSIVE flatten(_)
flatten(list_of_lists) ==
    IF list_of_lists = <<>> THEN <<>>
    ELSE Head(list_of_lists) \o flatten(Tail(list_of_lists))

-----------------------------------------------------------------------------
\* base.ListOfListElements

\* get_first_time: the earliest timestamp of a source list (min() of an empty
\* list raises ValueError, which the callers below test for).
get_first_time(element) == MinOf(Times(element))

\* sorted(self.inputs, key=self.get_first_time): a stable sort.
RECURSIVE InsertByFirstTime(_, _)
InsertByFirstTime(sorted, element) ==
    IF sorted = <<>> THEN <<element>>
    ELSE IF get_first_time(sorted[Len(sorted)]) <= get_first_time(element)
         THEN Append(sorted, element)
         ELSE Append(InsertByFirstTime(SubSeq(sorted, 1, Len(sorted) - 1), element),
                     sorted[Len(sorted)])

RECURSIVE SortByFirstTime(_)
SortByFirstTime(lists) ==
    IF lists = <<>> THEN <<>>
    ELSE InsertByFirstTime(SortByFirstTime(SubSeq(lists, 1, Len(lists) - 1)),
                           lists[Len(lists)])

\* __init__
ListOfListElementsInit(ins, start, lengths) ==
    LET elements == flatten(ins) IN
    IF Len(elements) = 0
    THEN Raise("ValueError", "No Sub-elements contained")
    ELSE IF \E i \in DOMAIN ins : ins[i] = <<>>
    THEN Raise("ValueError", "min() arg is an empty sequence")
    ELSE Ok([inputs |-> SortByFirstTime(ins),
             start_line |-> start,
             slc_lengths |-> lengths,
             has_line |-> "line" \in DOMAIN elements[1]])

\* A variant of InitialLastTime that reads the first element instead of the last
InitialLastTime_First(first_list) == first_list[1].time

\* line 74: the latest timestamp kept after the first source is copied
InitialLastTime(first_list) == first_list[Len(first_list)].time

\* A variant of KeepIndex that also keeps a timestamp equal to the latest kept
KeepIndex_NotEarlier(times, last_time) ==
    {index \in DOMAIN times : times[index] >= last_time}

\* line 81: the indexes of a later source that are kept
KeepIndex(times, last_time) == {index \in DOMAIN times : times[index] > last_time}

\* line 82: [deepcopy(element_list[index]) for index in keep_index]
SelectIndexes(element_list, keep_index) ==
    LET F[n \in 0..Len(element_list)] ==
            IF n = 0 THEN <<>>
            ELSE IF n \in keep_index THEN Append(F[n - 1], element_list[n])
                 ELSE F[n - 1]
    IN F[Len(element_list)]

\* lines 85-86: add the running line offset to the kept elements
OffsetLines(to_keep, previous_line_count) ==
    [k \in DOMAIN to_keep |->
        [to_keep[k] EXCEPT !.line = to_keep[k].line + previous_line_count]]

\* line 87: previous_line_count += self.slc_lengths[i], with i counted from 0
\* over list_of_element_lists[1:]
NextLineCount(previous_line_count, lengths, i) == previous_line_count + lengths[i + 1]

\* get_unique_elements.  The loop state is [uniques, last_time, prev, err];
\* step n handles list_of_element_lists[n] (Python enumerate index i = n - 2).
get_unique_elements(self) ==
    LET lists == self.inputs
        lengths == self.slc_lengths
        Step[n \in 1..Len(lists)] ==
            IF n = 1
            THEN [uniques |-> lists[1],
                  last_time |-> InitialLastTime(lists[1]),
                  prev |-> IF self.has_line /\ ~IsNone(lengths) THEN lengths[1] ELSE 0,
                  err |-> IF self.has_line /\ IsNone(lengths) THEN "TypeError" ELSE "none"]
            ELSE LET s == Step[n - 1]
                     element_list == lists[n]
                     times == [k \in DOMAIN element_list |-> element_list[k].time]
                     keep_index == KeepIndex(times, s.last_time)
                     kept == SelectIndexes(element_list, keep_index)
                     to_keep == IF self.has_line THEN OffsetLines(kept, s.prev) ELSE kept
                 IN IF s.err # "none" THEN s
                    ELSE IF keep_index = {}
                    THEN [s EXCEPT !.err = "ValueError"]
                    ELSE [uniques |-> s.uniques \o to_keep,
                          last_time |-> MaxOf({times[k] : k \in keep_index}),
                          prev |-> IF self.has_line
                                   THEN NextLineCount(s.prev, lengths, n - 2)
                                   ELSE s.prev,
                          err |-> "none"]
        final == Step[Len(lists)]
    IN IF final.err = "TypeError"
       THEN Raise("TypeError", "'NoneType' object is not subscriptable")
       ELSE IF final.err = "ValueError"
       THEN Raise("ValueError", "max() arg is an empty sequence")
       ELSE Ok(final.uniques)

\* line 139: the test of filter_by_time
InTimeWindow(azimuth_time, min_anx_bound, max_anx_bound) ==
    min_anx_bound < azimuth_time /\ azimuth_time < max_anx_bound

\* filter_by_time
filter_by_time(elements, anx_bounds, buffer) ==
    LET min_anx_bound == anx_bounds[1] - buffer
        max_anx_bound == anx_bounds[2] + buffer
    IN SelectSeq(elements, LAMBDA element :
                     InTimeWindow(element.time, min_anx_bound, max_anx_bound))

\* A variant of InLineBounds that leaves out the upper end of the window
InLineBounds_Exclusive(line, line_bounds) == line_bounds[1] <= line /\ line < line_bounds[2]

\* line 107: the test of filter_by_line
InLineBounds(line, line_bounds) == line_bounds[1] <= line /\ line <= line_bounds[2]

\* filter_by_line
filter_by_line(element_list, line_bounds) ==
    SelectSeq(element_list, LAMBDA elem : InLineBounds(elem.line, line_bounds))

\* update_line_numbers (start_line given)
update_line_numbers(self, elements) ==
    [k \in DOMAIN elements |->
        [elements[k] EXCEPT !.line = elements[k].line - Unwrap(self.start_line)]]

\* lines 171-173: the new list element, its children and its count attribute
NewListElement(filtered_elements) ==
    [count |-> Len(filtered_elements), children |-> filtered_elements]

\* A variant of create_filtered_list that counts the elements before the line
\* window is applied
create_filtered_list_CountBeforeLines(self, anx_bounds, buffer, line_bounds) ==
    LET unique == get_unique_elements(self) IN
    IF unique.status # "ok" THEN unique
    ELSE
    LET by_time == filter_by_time(unique.value, anx_bounds, buffer) IN
    IF self.has_line /\ IsNone(self.start_line) /\ by_time # <<>>
    THEN Raise("TypeError", "unsupported operand type(s) for -: 'int' and 'NoneType'")
    ELSE
    LET renumbered == IF self.has_line /\ by_time # <<>>
                      THEN update_line_numbers(self, by_time)
                      ELSE by_time IN
    IF ~IsNone(line_bounds) /\ ~self.has_line
    THEN Raise("ValueError", "Line bounds cannot be applied to elements without line numbers.")
    ELSE
    LET filtered_elements == IF IsNone(line_bounds) THEN renumbered
                             ELSE filter_by_line(renumbered, Unwrap(line_bounds))
    IN Ok([count |-> Len(renumbered), children |-> filtered_elements])

\* create_filtered_list
create_filtered_list(self, anx_bounds, buffer, line_bounds) ==
    LET unique == get_unique_elements(self) IN
    IF unique.status # "ok" THEN unique
    ELSE
    LET by_time == filter_by_time(unique.value, anx_bounds, buffer) IN
    IF self.has_line /\ IsNone(self.start_line) /\ by_time # <<>>
    THEN Raise("TypeError", "unsupported operand type(s) for -: 'int' and 'NoneType'")
    ELSE
    LET renumbered == IF self.has_line /\ by_time # <<>>
                      THEN update_line_numbers(self, by_time)
                      ELSE by_time IN
    IF ~IsNone(line_bounds) /\ ~self.has_line
    THEN Raise("ValueError", "Line bounds cannot be applied to elements without line numbers.")
    ELSE
    LET filtered_elements == IF IsNone(line_bounds) THEN renumbered
                             ELSE filter_by_line(renumbered, Unwrap(line_bounds))
    IN Ok(NewListElement(filtered_elements))

-----------------------------------------------------------------------------
\* The list merger driven by a caller: synthetic sources, then __init__, then
\* a call of get_unique_elements or of create_filtered_list on the new object.

\* A set of timestamps as the ascending list a source document holds
RECURSIVE AscendingSeq(_)
AscendingSeq(S) ==
    IF S = {} THEN <<>>
    ELSE Append(AscendingSeq(S \ {MaxOf(S)}), MaxOf(S))

\* Source number s of the caller: one element per timestamp of T; a
\* line-indexed element's line counts from the first element of its source
MakeSource(s, T, line_indexed) ==
    LET times == AscendingSeq(T) IN
    [k \in DOMAIN times |->
        IF line_indexed
        THEN [time |-> times[k], line |-> times[k] - times[1], src |-> s]
        ELSE [time |-> times[k], src |-> s]]

NoCall == [op |-> "none", anx_bounds |-> None, buffer |-> None,
           line_bounds |-> None, result |-> None]

GroupIdle == burst_infos = <<>> /\ check = None
ProductIdle == slcs = <<>> /\ product = None
BurstIdIdle == bid = None
HeapIdle == heap = None
StackIdle == stack = None
WriterIdle == writer = None
GroupedIdle == grouped = None
NoiseIdle == noise = None
SwathIdle == swath = None
SearchIdle == search = None
DlIdle == dl = None
MergerIdle ==
    /\ inputs = <<>> /\ start_line = None /\ slc_lengths = None
    /\ lol = None /\ ret = NoCall

\* The runs a..b of consecutive sample times
Intervals == {w \in (1..MaxTime) \X (1..MaxTime) : w[1] <= w[2]}

\* The line-indexed lists of n SLCs that follow each other along a track, in
\* time order: each starts no earlier and ends later than the one before
RECURSIVE Tracks(_)
Tracks(n) ==
    IF n = 0 THEN {<<>>}
    ELSE {Append(p[1], p[2]) :
            p \in {q \in Tracks(n - 1) \X Intervals :
                     \/ q[1] = <<>>
                     \/ /\ q[1][Len(q[1])][1] <= q[2][1]
                        /\ q[1][Len(q[1])][2] < q[2][2]}}

\* Either time-indexed sources with any sample times, some possibly empty, or
\* the line-indexed lists of a track handed over in any order, each SLC
\* declared as long as the lines its list covers
InitMerge ==
    /\ \E n \in 1..MaxSources :
         \/ \E T \in [1..n -> SUBSET (1..MaxTime)] :
              /\ inputs = [s \in 1..n |-> MakeSource(s, T[s], FALSE)]
              /\ slc_lengths = None
              /\ start_line = None
         \/ \E track \in Tracks(n), p \in Permutations(1..n) :
              /\ inputs = [s \in 1..n |->
                             MakeSource(s, track[p[s]][1]..track[p[s]][2], TRUE)]
              /\ slc_lengths = [s \in 1..n |-> track[p[s]][2] - track[p[s]][1] + 1]
              /\ start_line \in {None} \cup {Some(k) : k \in 0..MaxStartLine}
    /\ lol = [status |-> "new"]
    /\ ret = NoCall
    /\ GroupIdle
    /\ ProductIdle
    /\ BurstIdIdle
    /\ HeapIdle
    /\ StackIdle
    /\ WriterIdle
    /\ GroupedIdle
    /\ NoiseIdle
    /\ SwathIdle
    /\ SearchIdle
    /\ DlIdle

\* ListOfListElements(inputs, start_line, slc_lengths)
Construct ==
    /\ lol.status = "new"
    /\ lol' = ListOfListElementsInit(inputs, start_line, slc_lengths)
    /\ UNCHANGED <<inputs, start_line, slc_lengths, ret>>
    /\ UNCHANGED outsideMerger

\* list_of_lists.get_unique_elements()
CallGetUniqueElements ==
    /\ lol.status = "ok"
    /\ ret.op = "none"
    /\ ret' = [op |-> "get_unique_elements", anx_bounds |-> None, buffer |-> None,
               line_bounds |-> None, result |-> get_unique_elements(lol.value)]
    /\ UNCHANGED <<inputs, start_line, slc_lengths, lol>>
    /\ UNCHANGED outsideMerger

\* On a list without lines every line window is refused alike: one stands for all
NoLineWindows == {None, Some(<<0, MaxLineBound>>)}

LineWindows ==
    {None} \cup UNION {{Some(<<lo, hi>>) : hi \in lo..MaxLineBound} : lo \in 0..MaxLineBound}

\* list_of_lists.create_filtered_list(anx_bounds, buffer, line_bounds)
CallCreateFilteredList ==
    /\ lol.status = "ok"
    /\ ret.op = "none"
    /\ \E lo \in 1..MaxTime, hi \in 1..MaxTime, buffer \in 0..MaxBuffer,
          line_bounds \in (IF lol.value.has_line THEN LineWindows ELSE NoLineWindows) :
         /\ lo <= hi
         /\ ret' = [op |-> "create_filtered_list", anx_bounds |-> Some(<<lo, hi>>),
                    buffer |-> Some(buffer), line_bounds |-> line_bounds,
                    result |-> create_filtered_list(lol.value, <<lo, hi>>, buffer, line_bounds)]
    /\ UNCHANGED <<inputs, start_line, slc_lengths, lol>>
    /\ UNCHANGED outsideMerger

NextMerge == Construct \/ CallGetUniqueElements \/ CallCreateFilteredList

SpecMerge == InitMerge /\ [][NextMerge]_vars

-----------------------------------------------------------------------------
\* Properties of the list merger (checked under SpecMerge)

Returned(op) == ret.op = op /\ ret.result.status = "ok"

\* The elements of the list a call returned
Merged == IF ret.op = "get_unique_elements" THEN ret.result.value
          ELSE ret.result.value.children

\* Source r precedes source s in time order: earlier first timestamp, the
\* caller's order deciding between equal first timestamps
Precedes(r, s) ==
    \/ MinOf(Times(inputs[r])) < MinOf(Times(inputs[s]))
    \/ MinOf(Times(inputs[r])) = MinOf(Times(inputs[s])) /\ r < s

Earliest == CHOOSE s \in DOMAIN inputs : \A r \in DOMAIN inputs : ~Precedes(r, s)

TimesFrom(list, s) == {list[i].time : i \in {j \in DOMAIN list : list[j].src = s}}
CountFrom(list, s) == Cardinality({j \in DOMAIN list : list[j].src = s})
TimesBefore(list, s) ==
    {list[i].time : i \in {j \in DOMAIN list : Precedes(list[j].src, s)}}

NoDuplicateTime(list) == Cardinality({list[i].time : i \in DOMAIN list}) = Len(list)

\* Two sources A (the earliest) and B whose overlap consists of shared samples:
\* every sample of B that is not later than the last sample of A is also in A
SharedOverlap(A, B) ==
    {t \in Times(B) : t <= MaxOf(Times(A))} = Times(A) \cap Times(B)

\* C1: get_unique_elements keeps every element of the earliest source and,
\* from each later source, exactly the elements strictly later than the
\* latest timestamp already kept; for two sources overlapping in k shared
\* samples the result has no duplicate timestamp and len(A) + len(B) - k
\* elements.
C1_UniqueKeepsStrictlyLater ==
    Returned("get_unique_elements") =>
        LET out == ret.result.value
            B == CHOOSE s \in DOMAIN inputs : s # Earliest
        IN /\ TimesFrom(out, Earliest) = Times(inputs[Earliest])
           /\ \A s \in DOMAIN inputs \ {Earliest} :
                TimesFrom(out, s) =
                    {t \in Times(inputs[s]) : t > MaxOf(TimesBefore(out, s))}
           /\ \A s \in DOMAIN inputs : CountFrom(out, s) = Cardinality(TimesFrom(out, s))
           /\ (Len(inputs) = 2 /\ SharedOverlap(inputs[Earliest], inputs[B])) =>
                /\ NoDuplicateTime(out)
                /\ Len(out) = Len(inputs[Earliest]) + Len(inputs[B])
                              - Cardinality(Times(inputs[Earliest]) \cap Times(inputs[B]))

\* C1 witness: two sources sharing at least one sample were merged
C1_Witness ==
    /\ Returned("get_unique_elements")
    /\ Len(inputs) = 2
    /\ Times(inputs[1]) \cap Times(inputs[2]) # {}
    /\ SharedOverlap(inputs[Earliest], inputs[3 - Earliest])
    /\ Len(ret.result.value) < Len(inputs[1]) + Len(inputs[2])

\* The source-local line of the element of source s with timestamp t
LocalLine(s, t) ==
    LET k == CHOOSE j \in DOMAIN inputs[s] : inputs[s][j].time = t
    IN inputs[s][k].line

\* The sum of the declared lengths of the sources preceding s in time order
PriorLength(s) ==
    LET prior == {r \in DOMAIN inputs : Precedes(r, s)}
        Sum[R \in SUBSET prior] ==
            IF R = {} THEN 0
            ELSE LET r == CHOOSE x \in R : TRUE IN slc_lengths[r] + Sum[R \ {r}]
    IN Sum[prior]

\* C2: with start_line = N every output line number is the source-local line
\* plus the declared lengths of all sources preceding its source in time
\* order, minus N.
C2_LineRenumbering ==
    (Returned("create_filtered_list") /\ lol.value.has_line) =>
        \A i \in DOMAIN Merged :
            Merged[i].line = LocalLine(Merged[i].src, Merged[i].time)
                             + PriorLength(Merged[i].src) - Unwrap(start_line)

\* C3: every element returned by create_filtered_list carries a count equal
\* to the number of its children.
C3_CountIsNumberOfChildren ==
    Returned("create_filtered_list") =>
        ret.result.value.count = Len(ret.result.value.children)

\* C3 witness: a line window dropped some but not all elements of the list
C3_Witness ==
    /\ Returned("create_filtered_list")
    /\ ~IsNone(ret.line_bounds)
    /\ ret.result.value.count > 0
    /\ ret.result.value.count
         < Len(filter_by_time(get_unique_elements(lol.value).value,
                              Unwrap(ret.anx_bounds), Unwrap(ret.buffer)))

\* C4: the children of a merged list are in strictly ascending timestamp
\* order.
C4_StrictlyAscending ==
    (Returned("get_unique_elements") \/ Returned("create_filtered_list")) =>
        \A i \in DOMAIN Merged : \A j \in DOMAIN Merged :
            i < j => Merged[i].time < Merged[j].time

\* C4 witness: a merged list with children of three sources, one of which
\* overlapped the source before it
C4_Witness ==
    /\ Returned("create_filtered_list")
    /\ Len(inputs) = 3
    /\ \A s \in DOMAIN inputs : CountFrom(Merged, s) > 0
    /\ \E s \in DOMAIN inputs : CountFrom(Merged, s) < Len(inputs[s])
    /\ Len(Merged) = Cardinality(UNION {Times(inputs[s]) : s \in DOMAIN inputs})

\* An element list without the caller positions of the sources
Strip(list) ==
    [k \in DOMAIN list |->
        IF "line" \in DOMAIN list[k] THEN <<list[k].time, list[k].line>>
        ELSE <<list[k].time>>]

\* The call recorded in ret, made on the merger built from the sources and
\* declared lengths permuted by p
Permuted(p) ==
    LET ins == [k \in DOMAIN inputs |-> inputs[p[k]]]
        lengths == IF IsNone(slc_lengths) THEN None
                   ELSE [k \in DOMAIN inputs |-> slc_lengths[p[k]]]
        self == ListOfListElementsInit(ins, start_line, lengths)
    IN IF self.status # "ok" THEN self
       ELSE IF ret.op = "get_unique_elements" THEN get_unique_elements(self.value)
       ELSE create_filtered_list(self.value, Unwrap(ret.anx_bounds),
                                 Unwrap(ret.buffer), ret.line_bounds)

\* C5: the merged list does not depend on the order in which the caller
\* passes the sources (with their declared lengths).
C5_OrderIndependent ==
    (Returned("get_unique_elements") \/ Returned("create_filtered_list")) =>
        \A p \in Permutations(DOMAIN inputs) :
            Permuted(p).status = "ok" =>
                Strip(IF ret.op = "get_unique_elements" THEN Permuted(p).value
                      ELSE Permuted(p).value.children) = Strip(Merged)

\* C6: the time filter keeps exactly the elements with
\* windowStart - buffer <= t <= windowEnd + buffer.
C6_ClosedTimeWindow ==
    (Returned("create_filtered_list") /\ IsNone(ret.line_bounds)) =>
        LET unique == get_unique_elements(lol.value).value
            lo == Unwrap(ret.anx_bounds)[1] - Unwrap(ret.buffer)
            hi == Unwrap(ret.anx_bounds)[2] + Unwrap(ret.buffer)
        IN {Merged[i].time : i \in DOMAIN Merged}
             = {t \in {unique[i].time : i \in DOMAIN unique} : lo <= t /\ t <= hi}

-----------------------------------------------------------------------------
\* Group validators.  A burst is a record [granule, absolute_orbit, swath,
\* polarization, burst_id]; a swath is its subswath number (IW1 is 1).

RECURSIVE InsertSorted(_, _)
InsertSorted(sorted, x) ==
    IF sorted = <<>> THEN <<x>>
    ELSE IF sorted[Len(sorted)] <= x THEN Append(sorted, x)
         ELSE Append(InsertSorted(SubSeq(sorted, 1, Len(sorted) - 1), x),
                     sorted[Len(sorted)])

\* list.sort() of a list of integers
RECURSIVE SortInts(_)
SortInts(list) ==
    IF list = <<>> THEN <<>>
    ELSE InsertSorted(SortInts(SubSeq(list, 1, Len(list) - 1)), list[Len(list)])

\* list(range(lo, hi))
RangeList(lo, hi) == [k \in 1..(hi - lo) |-> lo + k - 1]

\* A variant of ConsecutiveIds that compares the burst IDs as a set
ConsecutiveIds_AsSet(burst_ids) ==
    Range(burst_ids) = MinOf(Range(burst_ids))..MaxOf(Range(burst_ids))

\* swath.py lines 76-78: the burst IDs, sorted, are range(min, max + 1)
ConsecutiveIds(burst_ids) ==
    SortInts(burst_ids) = RangeList(MinOf(Range(burst_ids)), MaxOf(Range(burst_ids)) + 1)

\* Swath.check_burst_group_validity
check_burst_group_validity(infos) ==
    LET granules == [k \in DOMAIN infos |-> infos[k].granule]
        duplicates == {granules[k] : k \in
                          {i \in DOMAIN granules :
                              Cardinality({j \in DOMAIN granules : granules[j] = granules[i]}) > 1}}
        orbits == {infos[k].absolute_orbit : k \in DOMAIN infos}
        swaths == {infos[k].swath : k \in DOMAIN infos}
        polarizations == {infos[k].polarization : k \in DOMAIN infos}
        burst_ids == [k \in DOMAIN infos |-> infos[k].burst_id]
    IN IF duplicates # {}
       THEN Raise("ValueError", "Found duplicate granules")
       ELSE IF Cardinality(orbits) # 1
       THEN Raise("ValueError", "All bursts must have the same absolute orbit")
       ELSE IF Cardinality(swaths) # 1
       THEN Raise("ValueError", "All bursts must be from the same swath")
       ELSE IF Cardinality(polarizations) # 1
       THEN Raise("ValueError", "All bursts must have the same polarization")
       ELSE IF ~ConsecutiveIds(burst_ids)
       THEN Raise("ValueError", "All bursts must have consecutive burst IDs")
       ELSE Ok(None)

Abs(x) == IF x < 0 THEN -x ELSE x

\* The cross-swath tolerance of Safe.check_group_validity, in burst IDs
SwathTolerance == 1

\* A variant of SwathsOverlap that compares the start IDs only
SwathsOverlap_StartOnly(ids1, ids2) ==
    Abs(MinOf(ids1) - MinOf(ids2)) <= SwathTolerance

\* Design section 4.2 (d): two adjacent swaths overlap when their start IDs
\* and their end IDs differ by at most SwathTolerance
SwathsOverlap(ids1, ids2) ==
    /\ Abs(MinOf(ids1) - MinOf(ids2)) <= SwathTolerance
    /\ Abs(MaxOf(ids1) - MaxOf(ids2)) <= SwathTolerance

\* Safe.check_group_validity (design section 4.2): every swath/polarization
\* subset passes Swath.check_burst_group_validity; the polarization subsets of
\* a swath share their start and their end burst ID; adjacent swaths differ by
\* at most SwathTolerance in their start IDs and in their end IDs.  After the
\* polarization check the range of a swath is the range of any of its
\* polarization subsets.
check_group_validity(infos) ==
    LET swaths == {infos[k].swath : k \in DOMAIN infos}
        Pols(sw) == {infos[k].polarization : k \in {j \in DOMAIN infos : infos[j].swath = sw}}
        Subset(sw, pol) ==
            SelectSeq(infos, LAMBDA b : b.swath = sw /\ b.polarization = pol)
        Ids(sw, pol) == {infos[k].burst_id :
                            k \in {j \in DOMAIN infos :
                                      infos[j].swath = sw /\ infos[j].polarization = pol}}
        SwathIds(sw) == UNION {Ids(sw, pol) : pol \in Pols(sw)}
        BadSubsets == {x \in {<<sw, pol>> : sw \in swaths, pol \in UNION {Pols(w) : w \in swaths}} :
                          /\ x[2] \in Pols(x[1])
                          /\ check_burst_group_validity(Subset(x[1], x[2])).status # "ok"}
        Adjacent(s1, s2) == s1 < s2 /\ ~\E s \in swaths : s1 < s /\ s < s2
    IN IF BadSubsets # {}
       THEN LET x == CHOOSE y \in BadSubsets :
                        \A z \in BadSubsets : y[1] < z[1] \/ (y[1] = z[1] /\ y[2] = z[2])
                                              \/ (y[1] = z[1] /\ y[2] = "VH")
            IN check_burst_group_validity(Subset(x[1], x[2]))
       ELSE IF \E sw \in swaths : \E p1 \in Pols(sw), p2 \in Pols(sw) :
                    MinOf(Ids(sw, p1)) # MinOf(Ids(sw, p2))
       THEN Raise("ValueError", "Polarization groups in swath do not share start burst id")
       ELSE IF \E sw \in swaths : \E p1 \in Pols(sw), p2 \in Pols(sw) :
                    MaxOf(Ids(sw, p1)) # MaxOf(Ids(sw, p2))
       THEN Raise("ValueError", "Polarization groups in swath do not share end burst id")
       ELSE IF \E s1 \in swaths, s2 \in swaths :
                    Adjacent(s1, s2) /\ ~SwathsOverlap(SwathIds(s1), SwathIds(s2))
       THEN Raise("ValueError", "Products from swaths do not overlap")
       ELSE Ok(None)

-----------------------------------------------------------------------------
\* The validators applied to bounded burst sets

Polarizations == {"VV", "VH"}

\* The subswaths IW1, IW2, IW3 of the interferometric wide mode
Swaths == 1..3

\* The metadata of a burst other than its burst ID
Metadata == [granule : 1..MaxGranule, absolute_orbit : 1..MaxOrbit, swath : Swaths,
             polarization : Polarizations]

NoCheck == [op |-> "none", result |-> None]

\* The place of a burst in a listing by granule name, then orbit, swath and
\* polarization
ListingKey(b) ==
    ((b.granule * (MaxOrbit + 1) + b.absolute_orbit) * 4 + b.swath) * 2
        + (IF b.polarization = "VV" THEN 0 ELSE 1)

\* The listings of n bursts by granule name, orbit, swath and polarization
RECURSIVE Listings(_)
Listings(n) ==
    IF n = 0 THEN {<<>>}
    ELSE {Append(p[1], p[2]) :
            p \in {q \in Listings(n - 1) \X Metadata :
                     q[1] = <<>> \/ ListingKey(q[1][Len(q[1])]) <= ListingKey(q[2])}}

\* Up to MaxBursts bursts with any metadata, listed by granule name, orbit,
\* swath and polarization; their burst IDs come in any order
InitSwath ==
    /\ \E n \in 0..MaxBursts :
         \E listing \in Listings(n), ids \in [1..n -> 1..MaxBurstId] :
            burst_infos = [k \in 1..n |->
                [granule |-> listing[k].granule,
                 absolute_orbit |-> listing[k].absolute_orbit,
                 swath |-> listing[k].swath,
                 polarization |-> listing[k].polarization,
                 burst_id |-> ids[k]]]
    /\ check = NoCheck
    /\ MergerIdle
    /\ ProductIdle
    /\ BurstIdIdle
    /\ HeapIdle
    /\ StackIdle
    /\ WriterIdle
    /\ GroupedIdle
    /\ NoiseIdle
    /\ SwathIdle
    /\ SearchIdle
    /\ DlIdle

\* Swath.check_burst_group_validity(burst_infos)
CheckBurstGroupValidity ==
    /\ check.op = "none"
    /\ check' = [op |-> "check_burst_group_validity",
                 result |-> check_burst_group_validity(burst_infos)]
    /\ UNCHANGED <<burst_infos, outsideGroup>>

NextSwath == CheckBurstGroupValidity

SpecSwath == InitSwath /\ [][NextSwath]_vars

\* The bursts of one orbit on the swath x polarization x burst ID grid; the
\* granule name of a burst tells its burst ID, as in tests/test_safe.py
GridBursts == [swath : Swaths, polarization : Polarizations, burst_id : 1..MaxBurstId]

RECURSIVE SetToSeq(_)
SetToSeq(S) ==
    IF S = {} THEN <<>>
    ELSE LET x == CHOOSE y \in S : TRUE IN <<x>> \o SetToSeq(S \ {x})

GridBurstInfo(g) ==
    [granule |-> g.burst_id, absolute_orbit |-> 1, swath |-> g.swath,
     polarization |-> g.polarization, burst_id |-> g.burst_id]

RECURSIVE SubsetsUpTo(_, _)
SubsetsUpTo(S, n) ==
    IF n = 0 THEN {{}}
    ELSE LET smaller == SubsetsUpTo(S, n - 1)
         IN smaller \cup {T \cup {x} : T \in smaller, x \in S}

InitSafe ==
    /\ \E G \in SubsetsUpTo(GridBursts, MaxSafeBursts) :
         /\ G # {}
         /\ burst_infos = [k \in 1..Cardinality(G) |-> GridBurstInfo(SetToSeq(G)[k])]
    /\ check = NoCheck
    /\ MergerIdle
    /\ ProductIdle
    /\ BurstIdIdle
    /\ HeapIdle
    /\ StackIdle
    /\ WriterIdle
    /\ GroupedIdle
    /\ NoiseIdle
    /\ SwathIdle
    /\ SearchIdle
    /\ DlIdle

\* Safe.check_group_validity(burst_infos)
CheckGroupValidity ==
    /\ check.op = "none"
    /\ check' = [op |-> "check_group_validity",
                 result |-> check_group_validity(burst_infos)]
    /\ UNCHANGED <<burst_infos, outsideGroup>>

NextSafe == CheckGroupValidity

SpecSafe == InitSafe /\ [][NextSafe]_vars

-----------------------------------------------------------------------------
\* Properties of the validators

Checked(op) == check.op = op

DistinctGranules ==
    \A i \in DOMAIN burst_infos : \A j \in DOMAIN burst_infos :
        i # j => burst_infos[i].granule # burst_infos[j].granule
SingleOrbit ==
    /\ burst_infos # <<>>
    /\ \E o \in 1..MaxOrbit : \A i \in DOMAIN burst_infos : burst_infos[i].absolute_orbit = o
SingleSwath == \E w \in Swaths : \A i \in DOMAIN burst_infos :
                   burst_infos[i].swath = w
SinglePolarization == \E q \in Polarizations : \A i \in DOMAIN burst_infos :
                          burst_infos[i].polarization = q
NoGapNoRepeat ==
    LET ids == {burst_infos[i].burst_id : i \in DOMAIN burst_infos}
    IN /\ Cardinality(ids) = Len(burst_infos)
       /\ \A x \in MinOf(ids)..MaxOf(ids) : x \in ids

\* C7: check_burst_group_validity returns normally iff granules are pairwise
\* distinct, and there is a single orbit, a single swath, a single
\* polarization and a gapless, repeat-free run of burst IDs; otherwise it
\* raises the ValueError of the first violated check, in this order.
C7_SwathValidity ==
    Checked("check_burst_group_validity") =>
        /\ check.result.status \in {"ok", "ValueError"}
        /\ check.result.status = "ok" <=>
              (DistinctGranules /\ SingleOrbit /\ SingleSwath /\ SinglePolarization
               /\ NoGapNoRepeat)
        /\ ~DistinctGranules => check.result.msg = "Found duplicate granules"
        /\ (DistinctGranules /\ ~SingleOrbit) =>
              check.result.msg = "All bursts must have the same absolute orbit"
        /\ (DistinctGranules /\ SingleOrbit /\ ~SingleSwath) =>
              check.result.msg = "All bursts must be from the same swath"
        /\ (DistinctGranules /\ SingleOrbit /\ SingleSwath /\ ~SinglePolarization) =>
              check.result.msg = "All bursts must have the same polarization"
        /\ (DistinctGranules /\ SingleOrbit /\ SingleSwath /\ SinglePolarization
            /\ ~NoGapNoRepeat) =>
              check.result.msg = "All bursts must have consecutive burst IDs"

\* C7 witness: bursts of two swaths and two polarizations with a gap in their
\* burst IDs were rejected for their swaths
C7_Witness ==
    /\ Checked("check_burst_group_validity")
    /\ DistinctGranules /\ SingleOrbit
    /\ ~SingleSwath /\ ~SinglePolarization /\ ~NoGapNoRepeat
    /\ check.result.status = "ValueError"
    /\ check.result.msg = "All bursts must be from the same swath"

SwathsOf(infos) == {infos[k].swath : k \in DOMAIN infos}
IdsOf(infos, sw, pol) ==
    {infos[k].burst_id :
        k \in {j \in DOMAIN infos : infos[j].swath = sw /\ infos[j].polarization = pol}}
IdsOfSwath(infos, sw) == IdsOf(infos, sw, "VV") \cup IdsOf(infos, sw, "VH")

PolarizationsAgree(infos) ==
    \A sw \in SwathsOf(infos) :
        (IdsOf(infos, sw, "VV") # {} /\ IdsOf(infos, sw, "VH") # {}) =>
            /\ MinOf(IdsOf(infos, sw, "VV")) = MinOf(IdsOf(infos, sw, "VH"))
            /\ MaxOf(IdsOf(infos, sw, "VV")) = MaxOf(IdsOf(infos, sw, "VH"))

AdjacentSwathsOverlap(infos) ==
    \A s1 \in SwathsOf(infos) : \A s2 \in SwathsOf(infos) :
        (s1 < s2 /\ \A s \in SwathsOf(infos) : ~(s1 < s /\ s < s2)) =>
            /\ MinOf(IdsOfSwath(infos, s1)) - MinOf(IdsOfSwath(infos, s2)) \in {-1, 0, 1}
            /\ MaxOf(IdsOfSwath(infos, s1)) - MaxOf(IdsOfSwath(infos, s2)) \in {-1, 0, 1}

\* C8: check_group_validity accepts a burst set only if the polarization
\* subsets of every swath share their minimum and their maximum burst ID and
\* adjacent swaths differ by at most 1 in their start IDs and in their end
\* IDs; every other set is rejected with ValueError.
C8_SafeValidity ==
    Checked("check_group_validity") =>
        /\ check.result.status \in {"ok", "ValueError"}
        /\ check.result.status = "ok" =>
              PolarizationsAgree(burst_infos) /\ AdjacentSwathsOverlap(burst_infos)

\* C8 witness: an accepted set of three swaths, one of them in two
\* polarizations, whose first and last swath start two burst IDs apart
C8_Witness ==
    /\ Checked("check_group_validity")
    /\ check.result.status = "ok"
    /\ SwathsOf(burst_infos) = 1..3
    /\ \E sw \in 1..3 : IdsOf(burst_infos, sw, "VV") # {} /\ IdsOf(burst_infos, sw, "VH") # {}
    /\ MinOf(IdsOfSwath(burst_infos, 3)) - MinOf(IdsOfSwath(burst_infos, 1)) = 2

-----------------------------------------------------------------------------
\* Source SLC annotations.  Bursts are numbered 0, 1, ... along the track over
\* all SLCs; burst g starts at tick g * BurstPeriod and lasts LinesPerBurst
\* lines of one tick each, so consecutive bursts overlap in time.  One tick is
\* a tenth of the 3.1 s of a burst.

\* timedelta(seconds=0.1) of create_swath_timing, in ticks
BurstListBuffer == 1
\* timedelta(seconds=3), the default buffer of create_filtered_list, in ticks
DefaultBuffer == 30

\* datetime.isoformat(): the text of a time, one text per time
isoformat(t) == <<"T", t>>

\* The decimal digits of n >= 0, as a string of characters
DigitChars == <<"0", "1", "2", "3", "4", "5", "6", "7", "8", "9">>
RECURSIVE DecimalDigits(_)
DecimalDigits(n) ==
    IF n < 10 THEN <<DigitChars[n + 1]>>
    ELSE Append(DecimalDigits(n \div 10), DigitChars[(n % 10) + 1])

\* f'{n:03d}' for n >= 0: zeros in front up to a width of three
RECURSIVE ZeroFill(_, _)
ZeroFill(text, width) ==
    IF Len(text) >= width THEN text ELSE ZeroFill(<<"0">> \o text, width)
Format03d(n) == ZeroFill(DecimalDigits(n), 3)

\* The product annotation of the SLC that holds bursts first..first+n-1: its
\* burstList, and its geolocation grid with a row of points at the first line
\* of every burst and a last row at the last line of the SLC
SlcAnnotation(first, n) ==
    LET BurstStart(b) == (first + b) * BurstPeriod
        Row(r) == IF r < n
                  THEN [time |-> BurstStart(r), line |-> r * LinesPerBurst]
                  ELSE [time |-> BurstStart(n - 1) + (LinesPerBurst - 1),
                        line |-> n * LinesPerBurst - 1]
    IN [n_bursts |-> n,
        linesPerBurst |-> LinesPerBurst,
        adsHeader |-> [startTime |-> isoformat(BurstStart(0)),
                       stopTime |-> isoformat(BurstStart(n - 1) + (LinesPerBurst - 1)),
                       imageNumber |-> Format03d(1)],
        burstList |-> [b \in 1..n |-> [time |-> BurstStart(b - 1), byteOffset |-> Some(b)]],
        inputDimensionsList |-> [b \in 1..n |-> [time |-> BurstStart(b - 1)]],
        geolocationGridPointList |->
            [k \in 1..((n + 1) * (MaxPixel + 1)) |->
                [time |-> Row((k - 1) \div (MaxPixel + 1)).time,
                 line |-> Row((k - 1) \div (MaxPixel + 1)).line,
                 pixel |-> (k - 1) % (MaxPixel + 1)]]]

\* utils.BurstInfo: add_shape_info
add_shape_info(info, annotation) ==
    [info EXCEPT !.length = annotation.linesPerBurst]

\* utils.BurstInfo: add_start_stop_utc (the azimuth time interval is one tick)
add_start_stop_utc(info, annotation) ==
    LET start_utc == annotation.burstList[info.burst_index + 1].time
    IN [info EXCEPT !.start_utc = start_utc,
                    !.stop_utc = start_utc + (info.length - 1)]

\* The burst descriptor of burst burst_index of SLC number path, whose first
\* burst is burst `first` of the track
BurstInfo(docs, path, first, burst_index) ==
    add_start_stop_utc(
        add_shape_info([burst_id |-> first + burst_index, burst_index |-> burst_index,
                        metadata_path |-> path, start_utc |-> 0, stop_utc |-> 0,
                        length |-> 0],
                       docs[path]),
        docs[path])

\* utils.drop_duplicates
RECURSIVE drop_duplicates(_)
drop_duplicates(input_list) ==
    IF input_list = <<>> THEN <<>>
    ELSE LET front == drop_duplicates(SubSeq(input_list, 1, Len(input_list) - 1))
             x == input_list[Len(input_list)]
         IN IF x \in Range(front) THEN front ELSE Append(front, x)

-----------------------------------------------------------------------------
\* base.Annotation and product.Product

\* Annotation.__init__ (and the fields Product.__init__ adds)
AnnotationInit(infos, docs, image_number) ==
    LET metadata_paths == drop_duplicates([k \in DOMAIN infos |-> infos[k].metadata_path])
        products == [k \in DOMAIN metadata_paths |-> docs[metadata_paths[k]]]
    IN [burst_infos |-> infos,
        image_number |-> image_number,
        ads_header |-> None,
        metadata_paths |-> metadata_paths,
        start_line |-> infos[1].burst_index * infos[1].length,
        total_lines |-> Len(infos) * infos[1].length,
        min_anx |-> MinOf({infos[k].start_utc : k \in DOMAIN infos}),
        max_anx |-> MaxOf({infos[k].stop_utc : k \in DOMAIN infos}),
        inputs |-> products,
        slc_lengths |-> [k \in DOMAIN products |->
                            products[k].n_bursts * products[k].linesPerBurst],
        image_annotation |-> None,
        swath_timing |-> None,
        geolocation_grid |-> None,
        gcps |-> <<>>,
        grid_calls |-> 0,
        xml |-> None]

\* input_xml.find(list_name) for every input: the source lists of one list
\* name, each element remembering the input it comes from
FindLists(self, list_name) ==
    [k \in DOMAIN self.inputs |->
        [e \in DOMAIN self.inputs[k][list_name] |->
            [time |-> self.inputs[k][list_name][e].time, src |-> k]
            @@ self.inputs[k][list_name][e]]]

\* Annotation.merge_lists
merge_lists(self, list_name, line_bounds) ==
    LET list_of_list_elements ==
            ListOfListElementsInit(FindLists(self, list_name), Some(self.start_line),
                                   self.slc_lengths)
    IN IF list_of_list_elements.status # "ok" THEN list_of_list_elements
       ELSE create_filtered_list(list_of_list_elements.value,
                                 <<self.min_anx, self.max_anx>>, DefaultBuffer, line_bounds)

\* The header of create_ads_header, from the adsHeader of the first input
UpdatedHeader(self) ==
    [self.inputs[1].adsHeader EXCEPT
        !.startTime = isoformat(self.min_anx),
        !.stopTime = isoformat(self.max_anx),
        !.imageNumber = Format03d(self.image_number)]

\* A variant of create_ads_header that edits the adsHeader of the first input
\* in place instead of a deep copy of it
create_ads_header_InPlace(self) ==
    [self EXCEPT !.ads_header = Some(UpdatedHeader(self)),
                 !.inputs[1].adsHeader = UpdatedHeader(self)]

\* Annotation.create_ads_header: the inputs keep their own headers
create_ads_header(self) ==
    [self EXCEPT !.ads_header = Some(UpdatedHeader(self))]

\* A variant of DropSurplusBurst that keeps the surplus burst
DropSurplusBurst_Keep(filtered, n_bursts) == filtered

\* product.py lines 195-197: drop the last burst when the buffer let one more in
DropSurplusBurst(filtered, n_bursts) ==
    IF filtered.count > n_bursts
    THEN [count |-> filtered.count - 1,
          children |-> SubSeq(filtered.children, 1, Len(filtered.children) - 1)]
    ELSE filtered

\* Product.create_swath_timing: the burstList of the product, or the error
create_swath_timing(self) ==
    LET burst_lol == ListOfListElementsInit(FindLists(self, "burstList"),
                                            Some(self.start_line), self.slc_lengths)
        filtered == create_filtered_list(burst_lol.value, <<self.min_anx, self.max_anx>>,
                                         BurstListBuffer, None)
    IN IF burst_lol.status # "ok" THEN burst_lol
       ELSE IF filtered.status # "ok" THEN filtered
       ELSE LET kept == DropSurplusBurst(filtered.value, Len(self.burst_infos))
            IN Ok([kept EXCEPT !.children =
                      [k \in DOMAIN kept.children |->
                          [kept.children[k] EXCEPT !.byteOffset = None]]])

\* product.py line 240: the line window of the geolocation grid
GridLineBounds(self) == <<0, self.total_lines>>

\* Product.update_gcps: one GeoPoint per grid point, appended to self.gcps
update_gcps(gcps, grid_list) ==
    gcps \o [k \in DOMAIN grid_list.children |->
                [line |-> grid_list.children[k].line,
                 pixel |-> grid_list.children[k].pixel]]

\* A burst group cut from the track of up to MaxSlcs consecutive SLCs, to be
\* assembled under one of the image numbers
BurstGroup(image_numbers) ==
    \E sizes \in UNION {[1..n -> 1..MaxBurstsPerSlc] : n \in 1..MaxSlcs} :
        LET First(j) == SumTo(sizes, j - 1)
        IN \E docs \in {[j \in DOMAIN sizes |-> SlcAnnotation(First(j), sizes[j])]} :
           \E track \in {flatten([j \in DOMAIN sizes |->
                                    [b \in 1..sizes[j] |->
                                        BurstInfo(docs, j, First(j), b - 1)]])} :
              /\ slcs = docs
              /\ \E lo \in DOMAIN track, hi \in DOMAIN track, image_number \in image_numbers :
                   /\ lo <= hi
                   /\ product = [status |-> "new", burst_infos |-> SubSeq(track, lo, hi),
                                 image_number |-> image_number]

InitAnnotation(image_numbers) ==
    /\ BurstGroup(image_numbers)
    /\ MergerIdle
    /\ GroupIdle
    /\ BurstIdIdle
    /\ HeapIdle
    /\ StackIdle
    /\ WriterIdle
    /\ GroupedIdle
    /\ NoiseIdle
    /\ SwathIdle
    /\ SearchIdle
    /\ DlIdle

InitProduct == InitAnnotation({1})

\* Product(burst_infos, ipf_version, image_number)
ProductNew ==
    /\ product.status = "new"
    /\ product' = Ok(AnnotationInit(product.burst_infos, slcs, product.image_number))
    /\ UNCHANGED <<slcs, outsideProduct>>

\* product.create_swath_timing()
CreateSwathTiming ==
    /\ product.status = "ok"
    /\ IsNone(product.value.swath_timing)
    /\ product' = [product EXCEPT !.value.swath_timing =
                                      Some(create_swath_timing(product.value))]
    /\ UNCHANGED <<slcs, outsideProduct>>

\* product.create_geolocation_grid()
CreateGeolocationGrid ==
    /\ product.status = "ok"
    /\ product.value.grid_calls < MaxGridCalls
    /\ LET grid_list == merge_lists(product.value, "geolocationGridPointList",
                                    Some(GridLineBounds(product.value)))
       IN product' = [product EXCEPT
                         !.value.geolocation_grid = Some(grid_list),
                         !.value.gcps = IF grid_list.status = "ok"
                                        THEN update_gcps(@, grid_list.value) ELSE @,
                         !.value.grid_calls = @ + 1]
    /\ UNCHANGED <<slcs, outsideProduct>>

NextProduct == ProductNew \/ CreateSwathTiming \/ CreateGeolocationGrid

SpecProduct == InitProduct /\ [][NextProduct]_vars

\* The header of an annotation, for any image number
InitHeader == InitAnnotation(0..MaxImageNumber)

\* annotation.create_ads_header()
CreateAdsHeader ==
    /\ product.status = "ok"
    /\ IsNone(product.value.ads_header)
    /\ product' = [product EXCEPT !.value = create_ads_header(@)]
    /\ UNCHANGED <<slcs, outsideProduct>>

NextHeader == ProductNew \/ CreateAdsHeader

SpecHeader == InitHeader /\ [][NextHeader]_vars

-----------------------------------------------------------------------------
\* Properties of the product annotation

SwathTimingMade ==
    /\ product.status = "ok"
    /\ ~IsNone(product.value.swath_timing)
    /\ Unwrap(product.value.swath_timing).status = "ok"

GridMade ==
    /\ product.status = "ok"
    /\ ~IsNone(product.value.geolocation_grid)
    /\ Unwrap(product.value.geolocation_grid).status = "ok"

\* C9: the burstList of the product has exactly one entry per burst of the
\* group, whatever the number of source SLCs and of other bursts in them.
C9_OneEntryPerBurst ==
    (product.status = "ok" /\ ~IsNone(product.value.swath_timing)) =>
        /\ SwathTimingMade
        /\ LET burst_list == Unwrap(product.value.swath_timing).value
               infos == product.value.burst_infos
           IN /\ burst_list.count = Len(infos)
              /\ Len(burst_list.children) = Len(infos)
              /\ \A k \in DOMAIN infos : burst_list.children[k].time = infos[k].start_utc

\* C9 witness: a group of bursts of two SLCs, with other bursts before the
\* group in the first SLC and after it in the second, got its burstList
C9_Witness ==
    /\ SwathTimingMade
    /\ Len(product.value.metadata_paths) = 2
    /\ product.value.burst_infos[1].burst_index > 0
    /\ LET infos == product.value.burst_infos
       IN infos[Len(infos)].burst_index + 1 < slcs[infos[Len(infos)].metadata_path].n_bursts

\* C10: every point of the geolocationGridPointList and every GeoPoint has a
\* line l with 0 <= l < total_lines.
C10_GridLinesInImage ==
    GridMade =>
        /\ \A k \in DOMAIN Unwrap(product.value.geolocation_grid).value.children :
             LET l == Unwrap(product.value.geolocation_grid).value.children[k].line
             IN 0 <= l /\ l < product.value.total_lines
        /\ \A k \in DOMAIN product.value.gcps :
             0 <= product.value.gcps[k].line
             /\ product.value.gcps[k].line < product.value.total_lines

\* The number a string of decimal digits stands for
RECURSIVE DecimalValue(_)
DecimalValue(text) ==
    IF text = <<>> THEN 0
    ELSE 10 * DecimalValue(SubSeq(text, 1, Len(text) - 1))
         + (CHOOSE d \in 0..9 : DigitChars[d + 1] = text[Len(text)])

HeaderMade == product.status = "ok" /\ ~IsNone(product.value.ads_header)

\* C11: create_ads_header sets startTime to the minimum start_utc and
\* stopTime to the maximum stop_utc of the bursts of the group, imageNumber to
\* the image number zero-padded to three digits, and leaves the header of the
\* source document as it was.
C11_HeaderFromGroup ==
    HeaderMade =>
        LET self == product.value
            header == Unwrap(self.ads_header)
            infos == self.burst_infos
        IN /\ header.startTime = isoformat(MinOf({infos[k].start_utc : k \in DOMAIN infos}))
           /\ header.stopTime = isoformat(MaxOf({infos[k].stop_utc : k \in DOMAIN infos}))
           /\ Len(header.imageNumber) = 3
           /\ DecimalValue(header.imageNumber) = self.image_number
           /\ \A k \in DOMAIN self.inputs :
                 self.inputs[k].adsHeader = slcs[self.metadata_paths[k]].adsHeader

\* C11 witness: a header made for bursts of two SLCs under a two-digit image
\* number, its times and number all different from those of the source header
C11_Witness ==
    /\ HeaderMade
    /\ Len(product.value.metadata_paths) = 2
    /\ product.value.image_number >= 10
    /\ LET header == Unwrap(product.value.ads_header)
           source == slcs[product.value.metadata_paths[1]].adsHeader
       IN /\ header.startTime # source.startTime
          /\ header.stopTime # source.stopTime
          /\ header.imageNumber # source.imageNumber

-----------------------------------------------------------------------------
\* burst_id: the ESA burst ID of a burst.  A datetime.timedelta is a number of
\* whole seconds and of microseconds 0..999999 (days are counted in seconds);
\* a datetime is the timedelta since the midnight before day 0.

timedelta(s, us) == [s |-> s + (us \div 1000000), us |-> us % 1000000]
TdAdd(a, b) == timedelta(a.s + b.s, a.us + b.us)
TdSub(a, b) == timedelta(a.s - b.s, a.us - b.us)
TdLess(a, b) == a.s < b.s \/ (a.s = b.s /\ a.us < b.us)

\* n * a: the microseconds of a are multiplied by the thousands of n apart,
\* so that no intermediate product leaves the machine integers
TdTimes(n, a) ==
    LET lo == n % 1000
        mid == (n \div 1000) % 1000
        hi == n \div 1000000
    IN timedelta(a.s * n + a.us * hi + ((a.us * mid) \div 1000),
                 ((a.us * mid) % 1000) * 1000 + a.us * lo)

\* int(np.floor(a / b)) for a timedelta b of less than 200 s, by long division
\* of the microseconds of a, digit by digit.  The float quotient of the code is
\* the correctly rounded ratio of two microsecond counts; its floor is the
\* floor of the exact ratio for every count below 2^53.
TdFloorDiv(a, b) ==
    LET d == b.s * 1000000 + b.us
        Pow10[k \in 0..6] == IF k = 0 THEN 1 ELSE 10 * Pow10[k - 1]
        Step[k \in 0..6] ==
            IF k = 0 THEN [q |-> a.s \div d, r |-> a.s % d]
            ELSE LET x == Step[k - 1].r * 10 + ((a.us \div Pow10[6 - k]) % 10)
                 IN [q |-> Step[k - 1].q * 10 + (x \div d), r |-> x % d]
    IN Step[6].q

\* burst_id.py lines 16-20, rounded to microseconds as timedelta() does
NOMINAL_ORBITAL_DURATION == timedelta(5924, 571429)
PREAMBLE_LENGTH_IW == timedelta(2, 299849)
PREAMBLE_LENGTH_EW == timedelta(2, 299970)
BEAM_CYCLE_TIME_IW == timedelta(2, 758273)
BEAM_CYCLE_TIME_EW == timedelta(3, 38376)

IW == <<"I", "W">>
EW == <<"E", "W">>
MODE_TIMING == (IW :> <<PREAMBLE_LENGTH_IW, BEAM_CYCLE_TIME_IW>>)
               @@ (EW :> <<PREAMBLE_LENGTH_EW, BEAM_CYCLE_TIME_EW>>)

\* str.upper() on the letters of the model's alphabet
UpperChar(c) ==
    CASE c = "i" -> "I" [] c = "w" -> "W" [] c = "e" -> "E" [] c = "n" -> "N"
      [] OTHER -> c
upper(text) == [k \in DOMAIN text |-> UpperChar(text[k])]

\* text[0:2]
Prefix2(text) == SubSeq(text, 1, IF Len(text) < 2 THEN Len(text) ELSE 2)

\* burst_id._get_mode_timing
get_mode_timing(mode_name) ==
    IF upper(Prefix2(mode_name)) \in DOMAIN MODE_TIMING
    THEN Ok(MODE_TIMING[upper(Prefix2(mode_name))])
    ELSE Raise("InvalidModeNameError", upper(Prefix2(mode_name)))

\* a_list[index] of Python: negative indexes count from the end
PyIndex(a_list, index) ==
    IF 0 <= index /\ index < Len(a_list) THEN Ok(a_list[index + 1])
    ELSE IF index < 0 /\ -index <= Len(a_list) THEN Ok(a_list[Len(a_list) + index + 1])
    ELSE Raise("IndexError", "list index out of range")

\* burst_id._calc_start_subsw1
calc_start_subsw1(start_offsets, swath_num, sensing_time) ==
    LET offset == PyIndex(start_offsets, swath_num - 1)
    IN IF offset.status # "ok" THEN offset
       ELSE Ok(TdAdd(sensing_time, offset.value))

\* A variant of calc_esa_burstid that counts the beam cycles from 0
calc_esa_burstid_FromZero(time_since_anx, orbit_number_start, preamble_len, beam_cycle_time) ==
    TdFloorDiv(TdSub(TdAdd(time_since_anx,
                           TdTimes(orbit_number_start - 1, NOMINAL_ORBITAL_DURATION)),
                     preamble_len),
               beam_cycle_time)

\* burst_id._calc_esa_burstid
calc_esa_burstid(time_since_anx, orbit_number_start, preamble_len, beam_cycle_time) ==
    LET dt_b == TdAdd(time_since_anx,
                      TdTimes(orbit_number_start - 1, NOMINAL_ORBITAL_DURATION))
    IN 1 + TdFloorDiv(TdSub(dt_b, preamble_len), beam_cycle_time)

\* dateutil.parser.parse of an ISO time given by its fields
parse(iso) ==
    timedelta(((iso.day * 24 + iso.hour) * 60 + iso.minute) * 60 + iso.second,
              iso.microsecond)

\* The burst-to-burst times of calculate_burstid, in microseconds
burst_times ==
    (IW :> <<832000, 1078000, 848000>>)
    @@ (EW :> <<683000, 559000, 612000, 565000, 619000>>)

\* iw1_start_offsets and ew1_start_offsets
start_offsets(mode) ==
    LET t == burst_times[mode]
    IN IF mode = IW
       THEN <<timedelta(0, 0), timedelta(0, -t[1]), timedelta(0, -t[1] - t[2])>>
       ELSE <<timedelta(0, 0), timedelta(0, -t[1]), timedelta(0, -t[1] - t[2]),
              timedelta(0, -t[1] - t[2] - t[3]),
              timedelta(0, -t[1] - t[2] - t[3] - t[4])>>

\* start_iw1_to_mid_iw2 and start_ew1_to_mid_ew3
start_to_mid(mode) ==
    LET t == burst_times[mode]
    IN IF mode = IW THEN timedelta(0, t[1] + (t[2] \div 2))
       ELSE timedelta(0, t[1] + t[2] + (t[3] \div 2))

DigitOf(c) == CHOOSE d \in 0..9 : DigitChars[d + 1] = c

\* A variant of LessThanFullOrbit that takes exactly one orbit for less
LessThanFullOrbit_OrEqual(time_since_anx_iw1) ==
    ~TdLess(NOMINAL_ORBITAL_DURATION, time_since_anx_iw1)

\* (time_since_anx_iw1 - NOMINAL_ORBITAL_DURATION).total_seconds() < 0
LessThanFullOrbit(time_since_anx_iw1) ==
    TdSub(time_since_anx_iw1, NOMINAL_ORBITAL_DURATION).s < 0

\* burst_id.calculate_burstid: (burst ID, orbit number) or the exception
calculate_burstid(sensing_time_iso, anx_time_iso, orbit_number_start, orbit_number_stop, subswath) ==
    LET sensing_dt == parse(sensing_time_iso)
        asc_node_dt == parse(anx_time_iso)
        mode == upper(Prefix2(subswath))
        swath_num == DigitOf(subswath[Len(subswath)])
        timing == get_mode_timing(mode)
        pream == timing.value[1]
        beamtime == timing.value[2]
        start_subsw1 == calc_start_subsw1(start_offsets(mode), swath_num, sensing_dt)
        has_anx_crossing == \/ orbit_number_stop = orbit_number_start + 1
                            \/ orbit_number_stop = 1 /\ orbit_number_start = 175
        time_since_anx_iw1 == TdSub(start_subsw1.value, asc_node_dt)
        mid == TdAdd(start_subsw1.value, start_to_mid(mode))
        time_since_anx == TdSub(mid, asc_node_dt)
    IN IF subswath = <<>> THEN Raise("IndexError", "string index out of range")
       ELSE IF subswath[Len(subswath)] \notin Range(DigitChars)
       THEN Raise("ValueError", "invalid literal for int() with base 10")
       ELSE IF timing.status # "ok" THEN timing
       ELSE IF start_subsw1.status # "ok" THEN start_subsw1
       ELSE IF mode = IW
       THEN IF LessThanFullOrbit(time_since_anx_iw1)
            THEN Ok([burst_id |-> calc_esa_burstid(time_since_anx, orbit_number_start,
                                                   pream, beamtime),
                     orbit_number |-> orbit_number_start])
            ELSE Ok([burst_id |-> calc_esa_burstid(
                                      IF has_anx_crossing THEN time_since_anx
                                      ELSE TdSub(time_since_anx, NOMINAL_ORBITAL_DURATION),
                                      orbit_number_start, pream, beamtime),
                     orbit_number |-> orbit_number_stop])
       ELSE Ok([burst_id |-> calc_esa_burstid(time_since_anx, orbit_number_start,
                                              pream, beamtime),
                orbit_number |-> orbit_number_start])

-----------------------------------------------------------------------------
\* calculate_burstid called once on bounded arguments

\* The ISO time of a datetime, by its fields
IsoOf(t) ==
    [day |-> t.s \div 86400, hour |-> (t.s % 86400) \div 3600,
     minute |-> (t.s % 3600) \div 60, second |-> t.s % 60, microsecond |-> t.us]

\* tests/test_burst_id.py: the equator crosser and the EW burst, under their
\* relative and their absolute orbit numbers, and the documented results
EQUATORCROSSER(orbit) ==
    [sensing_time_iso |-> [day |-> 0, hour |-> 18, minute |-> 46, second |-> 39,
                           microsecond |-> 515927],
     anx_time_iso |-> [day |-> 0, hour |-> 17, minute |-> 3, second |-> 10,
                       microsecond |-> 235250],
     orbit_number_start |-> orbit, orbit_number_stop |-> orbit,
     subswath |-> <<"I", "W", "2">>]
EWVector(orbit) ==
    [sensing_time_iso |-> [day |-> 0, hour |-> 14, minute |-> 32, second |-> 29,
                           microsecond |-> 345783],
     anx_time_iso |-> [day |-> 0, hour |-> 14, minute |-> 2, second |-> 11,
                       microsecond |-> 848637],
     orbit_number_start |-> orbit, orbit_number_stop |-> orbit,
     subswath |-> <<"E", "W", "5">>]
TestVectors ==
    (EQUATORCROSSER(16) :> [burst_id |-> 32322, orbit_number |-> 16])
    @@ (EQUATORCROSSER(48213) :> [burst_id |-> 103556001, orbit_number |-> 48213])
    @@ (EWVector(159) :> [burst_id |-> 308684, orbit_number |-> 159])
    @@ (EWVector(45381) :> [burst_id |-> 88487688, orbit_number |-> 45381])

\* The characters of subswath names, and the names of up to MaxSubswathLen of them
SubswathChars == {"I", "W", "E", "i", "N", "O", "X", "0", "1", "3", "5", "6", "8"}
SubswathNames == UNION {[1..n -> SubswathChars] : n \in 0..MaxSubswathLen}

\* The subswaths of the two modes
Subswaths ==
    {<<"I", "W", DigitChars[n + 1]>> : n \in 1..3}
    \cup {<<"E", "W", DigitChars[n + 1]>> : n \in 1..5}
    \cup {<<"i", "W", "3">>}

\* Orbit numbers at the start and at the end of an acquisition: within one
\* orbit, over an ascending node, over the end of the cycle, and two apart
OrbitPairs == {<<1, 1>>, <<16, 16>>, <<16, 17>>, <<175, 175>>, <<175, 1>>, <<16, 18>>}

\* Times from the ascending node to the sensing time: on and next to the
\* beam cycle boundaries of IW1 in the first orbit, on and next to one
\* nominal orbit for the start of IW1 seen from every subswath, and those of
\* the test vectors
SensingDelays ==
    {timedelta(0, 928849 + k * 2758273 + e) : k \in 0..MaxBeamCycles, e \in {-1, 0}}
    \cup {TdAdd(NOMINAL_ORBITAL_DURATION, timedelta(0, shift + e)) :
            shift \in {0, 832000, 1910000}, e \in {-1, 0, 1}}
    \cup {timedelta(6209, 280677), timedelta(1817, 497146)}

NoBurstId == [status |-> "none"]

\* Either any name for the subswath of a test vector, or a subswath of the two
\* modes at any of the delays and orbit pairs
InitBurstId ==
    /\ \E args \in
          {[EQUATORCROSSER(16) EXCEPT !.subswath = name] : name \in SubswathNames}
          \cup DOMAIN TestVectors
          \cup {[sensing_time_iso |-> IsoOf(TdAdd(parse(EQUATORCROSSER(16).anx_time_iso), d)),
                 anx_time_iso |-> EQUATORCROSSER(16).anx_time_iso,
                 orbit_number_start |-> o[1], orbit_number_stop |-> o[2],
                 subswath |-> sw] :
                d \in SensingDelays, o \in OrbitPairs, sw \in Subswaths} :
         bid = [args |-> args, result |-> NoBurstId]
    /\ MergerIdle
    /\ GroupIdle
    /\ ProductIdle
    /\ HeapIdle
    /\ StackIdle
    /\ WriterIdle
    /\ GroupedIdle
    /\ NoiseIdle
    /\ SwathIdle
    /\ SearchIdle
    /\ DlIdle

\* calculate_burstid(sensing_time_iso, anx_time_iso, orbit_number_start,
\*                   orbit_number_stop, subswath)
CalculateBurstId ==
    /\ bid.result = NoBurstId
    /\ bid' = [bid EXCEPT !.result =
                  calculate_burstid(bid.args.sensing_time_iso, bid.args.anx_time_iso,
                                    bid.args.orbit_number_start, bid.args.orbit_number_stop,
                                    bid.args.subswath)]
    /\ UNCHANGED outsideBurstId

NextBurstId == CalculateBurstId

SpecBurstId == InitBurstId /\ [][NextBurstId]_vars

-----------------------------------------------------------------------------
\* Properties of calculate_burstid

BurstIdReturned == bid.result.status = "ok"
BurstIdMode == upper(Prefix2(bid.args.subswath))

\* The start of the first subswath and the middle of the burst, from the
\* arguments of the call
StartOfFirstSubswath ==
    calc_start_subsw1(start_offsets(BurstIdMode),
                      DigitOf(bid.args.subswath[Len(bid.args.subswath)]),
                      parse(bid.args.sensing_time_iso)).value
MidBurst == TdAdd(StartOfFirstSubswath, start_to_mid(BurstIdMode))

\* One nominal orbit or more lies between the ascending node and the start of
\* IW1
RolledOver ==
    /\ BurstIdMode = IW
    /\ ~TdLess(StartOfFirstSubswath,
               TdAdd(parse(bid.args.anx_time_iso), NOMINAL_ORBITAL_DURATION))
Crossing ==
    \/ bid.args.orbit_number_stop = bid.args.orbit_number_start + 1
    \/ bid.args.orbit_number_stop = 1 /\ bid.args.orbit_number_start = 175

\* The elapsed time of the burst ID formula, counting the orbits before orbit r
Elapsed(r) ==
    LET since == TdSub(MidBurst, parse(bid.args.anx_time_iso))
        whole == TdAdd(since, TdTimes(r - 1, NOMINAL_ORBITAL_DURATION))
    IN IF RolledOver /\ ~Crossing THEN TdSub(whole, NOMINAL_ORBITAL_DURATION) ELSE whole

\* id = 1 + floor((elapsed - preamble) / beam cycle), said with products
IsBurstIdOf(id, elapsed) ==
    LET pream == MODE_TIMING[BurstIdMode][1]
        beamtime == MODE_TIMING[BurstIdMode][2]
        rest == TdSub(elapsed, pream)
    IN /\ ~TdLess(rest, TdTimes(id - 1, beamtime))
       /\ TdLess(rest, TdTimes(id, beamtime))

DocumentedResults ==
    bid.args \in DOMAIN TestVectors => bid.result.value = TestVectors[bid.args]

\* C12 as stated: the burst ID is 1 + floor((elapsed - preamble) / beam cycle)
\* with elapsed counted from the orbit number the function returns, and the
\* test vectors give their documented results.
C12_BurstIdFromResolvedOrbit ==
    BurstIdReturned =>
        /\ IsBurstIdOf(bid.result.value.burst_id, Elapsed(bid.result.value.orbit_number))
        /\ DocumentedResults

\* C12 amended: the burst ID is 1 + floor((elapsed - preamble) / beam cycle)
\* with elapsed counted from orbit_number_start, whatever orbit number is
\* returned, and the test vectors give their documented results.
C12_BurstIdFromStartOrbit ==
    BurstIdReturned =>
        /\ IsBurstIdOf(bid.result.value.burst_id, Elapsed(bid.args.orbit_number_start))
        /\ DocumentedResults

\* C12 witness: the burst ID of an IW burst more than one orbit after the
\* ascending node of an acquisition that crosses it
C12_Witness ==
    /\ BurstIdReturned
    /\ RolledOver /\ Crossing
    /\ bid.result.value.orbit_number # bid.args.orbit_number_start
    /\ bid.result.value.burst_id > 1

\* C13: the orbit number returned is orbit_number_start for an EW burst, and
\* for an IW burst orbit_number_start when less than one nominal orbit lies
\* between the ascending node and the start of IW1, orbit_number_stop
\* otherwise.
C13_ResolvedOrbit ==
    BurstIdReturned =>
        bid.result.value.orbit_number =
            IF RolledOver THEN bid.args.orbit_number_stop ELSE bid.args.orbit_number_start

\* C13 witness: an IW burst exactly one nominal orbit after the ascending node
\* got the stop orbit of a crossing acquisition
C13_Witness ==
    /\ BurstIdReturned
    /\ StartOfFirstSubswath
         = TdAdd(parse(bid.args.anx_time_iso), NOMINAL_ORBITAL_DURATION)
    /\ bid.args.orbit_number_stop # bid.args.orbit_number_start
    /\ bid.result.value.orbit_number = bid.args.orbit_number_stop

Recognized(subswath) == upper(Prefix2(subswath)) \in {IW, EW}

\* C14: for every subswath string whose mode prefix is not IW or EW,
\* calculate_burstid raises InvalidModeNameError.
C14_InvalidModeName ==
    (bid.result # NoBurstId /\ ~Recognized(bid.args.subswath)) =>
        bid.result.status = "InvalidModeNameError"

-----------------------------------------------------------------------------
\* Further properties of the list merger (checked under SpecMerge)

\* One of the sources handed over holds no element
SomeSourceEmpty == \E s \in DOMAIN inputs : inputs[s] = <<>>

\* C15: when any one of the sources is empty, construction raises the
\* element-count error (the ValueError 'No Sub-elements contained') and no
\* merger object is produced
C15_EmptySourceIsElementCountError ==
    (lol.status # "new" /\ SomeSourceEmpty) =>
        /\ lol.status = "ValueError"
        /\ lol.msg = "No Sub-elements contained"

\* The elements a call of create_filtered_list keeps by time, with the line
\* numbers get_unique_elements gave them
KeptByTime ==
    filter_by_time(get_unique_elements(lol.value).value,
                   Unwrap(ret.anx_bounds), Unwrap(ret.buffer))

\* C16: on a line-indexed list built without a start line, create_filtered_list
\* completes without error and every line number stays at its source-local
\* value plus the cumulative offset (no start line is subtracted)
C16_NoStartLineLeavesLines ==
    (/\ lol.status = "ok"
     /\ lol.value.has_line
     /\ IsNone(start_line)
     /\ ret.op = "create_filtered_list"
     /\ IsNone(ret.line_bounds)) =>
        /\ ret.result.status = "ok"
        /\ ret.result.value.children = KeptByTime

\* The elements kept by time with start_line subtracted from their lines
RenumberedByTime ==
    [k \in DOMAIN KeptByTime |->
        [KeptByTime[k] EXCEPT !.line = KeptByTime[k].line - Unwrap(start_line)]]

\* C17: create_filtered_list with a line window raises ValueError and returns
\* no list when the elements have no line field; on a line-indexed list the
\* list it returns holds, in order, exactly the time-filtered elements whose
\* renumbered line lies inside the window, both ends included
C17_LineWindow ==
    (/\ lol.status = "ok"
     /\ ret.op = "create_filtered_list"
     /\ ~IsNone(ret.line_bounds)) =>
        /\ ~lol.value.has_line => ret.result.status = "ValueError"
        /\ (lol.value.has_line /\ ret.result.status = "ok") =>
              ret.result.value.children =
                  SelectSeq(RenumberedByTime,
                            LAMBDA e : /\ Unwrap(ret.line_bounds)[1] <= e.line
                                       /\ e.line <= Unwrap(ret.line_bounds)[2])

\* A line window applied to a list of two sources whose lines were shifted by
\* a start line: an element on the last line of the window is kept and
\* another element, outside the window, is dropped
C17_Witness ==
    /\ Returned("create_filtered_list")
    /\ lol.value.has_line
    /\ ~IsNone(ret.line_bounds)
    /\ Len(inputs) >= 2
    /\ start_line = Some(1)
    /\ \E k \in DOMAIN ret.result.value.children :
          ret.result.value.children[k].line = Unwrap(ret.line_bounds)[2]
    /\ Len(ret.result.value.children) < Len(KeptByTime)

\* A line window asked of a list without lines
C17_RefusedWitness ==
    /\ lol.status = "ok"
    /\ ~lol.value.has_line
    /\ ret.op = "create_filtered_list"
    /\ ~IsNone(ret.line_bounds)
    /\ ret.result.status = "ValueError"
    /\ ret.result.msg = "Line bounds cannot be applied to elements without line numbers."

-----------------------------------------------------------------------------
\* The list merger over elements in memory.  An element lives at an address
\* of `cells`; a source document is the list of the addresses of its
\* children; a Python list of elements is a list of addresses, so that two
\* lists may hold the same element.

MaxMerges == 2        \* calls made one after the other on one merger object

\* The content of the elements of a list
Deref(cells, addrs) == [k \in DOMAIN addrs |-> cells[addrs[k]]]

\* A variant of deepcopy that hands back the element itself
deepcopy_Alias(cells, addr) == [cells |-> cells, addr |-> addr]

\* copy.deepcopy(element): a new element with the content of the old one
deepcopy(cells, addr) == [cells |-> Append(cells, cells[addr]), addr |-> Len(cells) + 1]

\* [deepcopy(element) for element in elements]
RECURSIVE DeepcopyEach(_, _)
DeepcopyEach(cells, addrs) ==
    IF addrs = <<>> THEN [cells |-> cells, addrs |-> <<>>]
    ELSE LET front == DeepcopyEach(cells, SubSeq(addrs, 1, Len(addrs) - 1))
             copy == deepcopy(front.cells, addrs[Len(addrs)])
         IN [cells |-> copy.cells, addrs |-> Append(front.addrs, copy.addr)]

\* lines 85-86 and 118-119: the line of every element of a list moved by delta
ShiftLines(cells, addrs, delta) ==
    [a \in DOMAIN cells |->
        IF a \in Range(addrs) THEN [cells[a] EXCEPT !.line = @ + delta] ELSE cells[a]]

\* line 172, new_element.append(element): the element becomes a child of
\* new_element, and so leaves the document it was a child of
append(docs, addr) ==
    [d \in DOMAIN docs |-> SelectSeq(docs[d], LAMBDA a : a # addr)]

RECURSIVE AppendEach(_, _)
AppendEach(docs, addrs) ==
    IF addrs = <<>> THEN docs
    ELSE AppendEach(append(docs, Head(addrs)), Tail(addrs))

\* line 51: the places of the sources in sorted(self.inputs, key=get_first_time)
SortedPlaces(lists) ==
    CHOOSE p \in Permutations(DOMAIN lists) :
        \A i \in DOMAIN lists : \A j \in DOMAIN lists :
            i < j => \/ get_first_time(lists[p[i]]) < get_first_time(lists[p[j]])
                     \/ /\ get_first_time(lists[p[i]]) = get_first_time(lists[p[j]])
                        /\ p[i] < p[j]

\* __init__ over the documents in memory: self.inputs holds the documents
\* themselves, in sorted order
RunInit(mem, start, lengths) ==
    LET lists == [d \in DOMAIN mem.docs |-> Deref(mem.cells, mem.docs[d])]
        made == ListOfListElementsInit(lists, start, lengths)
    IN IF made.status # "ok" THEN made
       ELSE Ok([made.value EXCEPT !.inputs = SortedPlaces(lists)])

\* lines 74-77: the loop state of get_unique_elements after the first list
FirstList(cells, self, first_list) ==
    IF first_list = <<>>
    THEN [cells |-> cells, uniques |-> <<>>, last_time |-> 0, prev |-> 0,
          err |-> "IndexError"]
    ELSE Bind(DeepcopyEach(cells, first_list), LAMBDA copies :
            [cells |-> copies.cells,
             uniques |-> copies.addrs,
             last_time |-> InitialLastTime(Deref(cells, first_list)),
             prev |-> IF self.has_line /\ ~IsNone(self.slc_lengths)
                      THEN self.slc_lengths[1] ELSE 0,
             err |-> IF self.has_line /\ IsNone(self.slc_lengths)
                     THEN "TypeError" ELSE "none"])

\* lines 80-90: one turn of the loop, over the list at place n of self.inputs
\* (Python's enumerate index is i = n - 2)
NextList(s, self, element_list, n) ==
    LET times == [k \in DOMAIN element_list |-> s.cells[element_list[k]].time]
        keep_index == KeepIndex(times, s.last_time)
    IN IF s.err # "none" THEN s
       ELSE IF keep_index = {} THEN [s EXCEPT !.err = "ValueError"]
       ELSE Bind(DeepcopyEach(s.cells, SelectIndexes(element_list, keep_index)),
                 LAMBDA to_keep :
                    [cells |-> IF self.has_line
                               THEN ShiftLines(to_keep.cells, to_keep.addrs, s.prev)
                               ELSE to_keep.cells,
                     uniques |-> s.uniques \o to_keep.addrs,
                     last_time |-> MaxOf({times[k] : k \in keep_index}),
                     prev |-> IF self.has_line
                              THEN NextLineCount(s.prev, self.slc_lengths, n - 2)
                              ELSE s.prev,
                     err |-> "none"])

\* line 79: the loop over the lists after the first
RECURSIVE LaterLists(_, _, _, _)
LaterLists(s, self, docs, n) ==
    IF n > Len(self.inputs) THEN s
    ELSE Bind(NextList(s, self, docs[self.inputs[n]], n),
              LAMBDA t : LaterLists(t, self, docs, n + 1))

\* get_unique_elements over the elements in memory: the memory afterwards
\* and the list returned (or the error)
RunGetUniqueElements(mem, self) ==
    Bind(FirstList(mem.cells, self, mem.docs[self.inputs[1]]), LAMBDA first :
    Bind(LaterLists(first, self, mem.docs, 2), LAMBDA final :
        [mem |-> [mem EXCEPT !.cells = final.cells],
         result |-> IF final.err = "IndexError"
                    THEN Raise("IndexError", "list index out of range")
                    ELSE IF final.err = "TypeError"
                    THEN Raise("TypeError", "'NoneType' object is not subscriptable")
                    ELSE IF final.err = "ValueError"
                    THEN Raise("ValueError", "max() arg is an empty sequence")
                    ELSE Ok(final.uniques)]))

\* filter_by_time over the elements in memory
RunFilterByTime(cells, elements, anx_bounds, buffer) ==
    DeepcopyEach(cells,
        SelectSeq(elements, LAMBDA a :
            InTimeWindow(cells[a].time, anx_bounds[1] - buffer, anx_bounds[2] + buffer)))

\* filter_by_line over the elements in memory
RunFilterByLine(cells, element_list, line_bounds) ==
    DeepcopyEach(cells,
        SelectSeq(element_list, LAMBDA a : InLineBounds(cells[a].line, line_bounds)))

\* lines 163-174 of create_filtered_list, on the elements kept by time
AfterFilterByTime(mem, self, by_time, line_bounds) ==
    IF self.has_line /\ IsNone(self.start_line) /\ by_time.addrs # <<>>
    THEN [mem |-> [mem EXCEPT !.cells = by_time.cells],
          result |-> Raise("TypeError", "unsupported operand type(s) for -: 'int' and 'NoneType'")]
    ELSE Bind(IF self.has_line /\ by_time.addrs # <<>>
              THEN ShiftLines(by_time.cells, by_time.addrs, 0 - Unwrap(self.start_line))
              ELSE by_time.cells,
              LAMBDA renumbered :
         IF ~IsNone(line_bounds) /\ ~self.has_line
         THEN [mem |-> [mem EXCEPT !.cells = renumbered],
               result |-> Raise("ValueError",
                                "Line bounds cannot be applied to elements without line numbers.")]
         ELSE Bind(IF IsNone(line_bounds)
                   THEN [cells |-> renumbered, addrs |-> by_time.addrs]
                   ELSE RunFilterByLine(renumbered, by_time.addrs, Unwrap(line_bounds)),
                   LAMBDA by_line :
                      [mem |-> [cells |-> by_line.cells,
                                docs |-> AppendEach(mem.docs, by_line.addrs)],
                       result |-> Ok(NewListElement(by_line.addrs))]))

\* create_filtered_list over the elements in memory: the memory afterwards
\* and the list element returned (or the error)
RunCreateFilteredList(mem, self, anx_bounds, buffer, line_bounds) ==
    Bind(RunGetUniqueElements(mem, self), LAMBDA unique :
        IF unique.result.status # "ok" THEN unique
        ELSE Bind(RunFilterByTime(unique.mem.cells, unique.result.value, anx_bounds, buffer),
                  LAMBDA by_time : AfterFilterByTime(mem, self, by_time, line_bounds)))

\* The addresses of the children of source s when the sources are laid out
\* in memory one after the other
ChildAddresses(sources, s) ==
    [k \in DOMAIN sources[s] |->
        SumTo([r \in DOMAIN sources |-> Len(sources[r])], s - 1) + k]

NoMerger == [status |-> "new"]

\* The orders in which the lists of a track are handed over: along the track
\* or against it
HandoverOrders(n) == {[s \in 1..n |-> s], [s \in 1..n |-> n + 1 - s]}

\* The lists of the SLCs of a track, line-indexed or not, handed over along
\* the track or against it and laid out in memory; `inputs` keeps what they
\* held when handed over
InitRemerge ==
    /\ \E n \in 1..MaxSources : \E track \in Tracks(n), p \in HandoverOrders(n),
                                    line_indexed \in BOOLEAN :
         /\ inputs = [s \in 1..n |->
                        MakeSource(s, track[p[s]][1]..track[p[s]][2], line_indexed)]
         /\ slc_lengths = IF line_indexed
                          THEN [s \in 1..n |-> track[p[s]][2] - track[p[s]][1] + 1]
                          ELSE None
         /\ start_line \in IF line_indexed
                           THEN {None} \cup {Some(k) : k \in 0..MaxStartLine}
                           ELSE {None}
    /\ heap = [cells |-> flatten(inputs),
               docs |-> [s \in DOMAIN inputs |-> ChildAddresses(inputs, s)],
               self |-> NoMerger,
               calls |-> <<>>]
    /\ lol = None
    /\ ret = NoCall
    /\ GroupIdle
    /\ ProductIdle
    /\ BurstIdIdle
    /\ StackIdle
    /\ WriterIdle
    /\ GroupedIdle
    /\ NoiseIdle
    /\ SwathIdle
    /\ SearchIdle
    /\ DlIdle

\* ListOfListElements(inputs, start_line, slc_lengths) on the lists in memory
ConstructInMemory ==
    /\ heap.self = NoMerger
    /\ heap' = [heap EXCEPT !.self = RunInit(heap, start_line, slc_lengths)]
    /\ UNCHANGED <<inputs, start_line, slc_lengths, outsideHeap>>

\* What a call leaves: the memory it worked on and a record of the call
Called(call, outcome) ==
    Bind(outcome, LAMBDA run :
        [cells |-> run.mem.cells, docs |-> run.mem.docs, self |-> heap.self,
         calls |-> Append(heap.calls, [call EXCEPT !.result = run.result])])

\* The first call on the object: list_of_lists.get_unique_elements()
MergeUnique ==
    /\ heap.self.status = "ok"
    /\ heap.calls = <<>>
    /\ heap' = Called([NoCall EXCEPT !.op = "get_unique_elements"],
                      RunGetUniqueElements(heap, heap.self.value))
    /\ UNCHANGED <<inputs, start_line, slc_lengths, outsideHeap>>

\* The first call on the object:
\* list_of_lists.create_filtered_list(anx_bounds, buffer, line_bounds)
MergeFiltered ==
    /\ heap.self.status = "ok"
    /\ heap.calls = <<>>
    /\ \E lo \in 1..MaxTime, hi \in 1..MaxTime, buffer \in 0..MaxBuffer,
          line_bounds \in (IF heap.self.value.has_line THEN LineWindows ELSE NoLineWindows) :
         /\ lo <= hi
         /\ heap' = Called([op |-> "create_filtered_list", anx_bounds |-> Some(<<lo, hi>>),
                            buffer |-> Some(buffer), line_bounds |-> line_bounds,
                            result |-> None],
                           RunCreateFilteredList(heap, heap.self.value, <<lo, hi>>, buffer,
                                                 line_bounds))
    /\ UNCHANGED <<inputs, start_line, slc_lengths, outsideHeap>>

\* The same call once more, with the same arguments
MergeAgain ==
    /\ heap.self.status = "ok"
    /\ heap.calls # <<>>
    /\ Len(heap.calls) < MaxMerges
    /\ LET call == heap.calls[1]
       IN heap' = Called(call,
                      IF call.op = "get_unique_elements"
                      THEN RunGetUniqueElements(heap, heap.self.value)
                      ELSE RunCreateFilteredList(heap, heap.self.value,
                                                 Unwrap(call.anx_bounds), Unwrap(call.buffer),
                                                 call.line_bounds))
    /\ UNCHANGED <<inputs, start_line, slc_lengths, outsideHeap>>

NextRemerge == ConstructInMemory \/ MergeUnique \/ MergeFiltered \/ MergeAgain

SpecRemerge == InitRemerge /\ [][NextRemerge]_vars

-----------------------------------------------------------------------------
\* Properties of repeated merges (checked under SpecRemerge)

\* What the caller reads in the list a call returned
Output(call) ==
    IF call.result.status # "ok" THEN call.result
    ELSE IF call.op = "get_unique_elements"
    THEN Deref(heap.cells, call.result.value)
    ELSE [count |-> call.result.value.count,
          children |-> Deref(heap.cells, call.result.value.children)]

\* C18: merging is deterministic and leaves its inputs alone: the calls made
\* with the same arguments on the same sources gave identical outputs, and
\* after any number of merges every source list holds the elements it held
\* when it was handed over, in the same order and with the same line numbers
C18_MergeLeavesSources ==
    /\ \A s \in DOMAIN inputs : Deref(heap.cells, heap.docs[s]) = inputs[s]
    /\ \A i \in DOMAIN heap.calls : \A j \in DOMAIN heap.calls :
          Output(heap.calls[i]) = Output(heap.calls[j])

\* Two line-indexed sources merged twice with a start line of 1 and a line
\* window: both calls returned a list in which an element of the later
\* source has another line number than in its source
C18_Witness ==
    /\ Len(heap.calls) = MaxMerges
    /\ Len(inputs) >= 2
    /\ start_line = Some(1)
    /\ \A i \in DOMAIN heap.calls :
          /\ heap.calls[i].op = "create_filtered_list"
          /\ ~IsNone(heap.calls[i].line_bounds)
          /\ heap.calls[i].result.status = "ok"
          /\ \E k \in DOMAIN Output(heap.calls[i]).children :
                LET e == Output(heap.calls[i]).children[k]
                IN e.src = heap.self.value.inputs[2] /\ e \notin Range(inputs[e.src])

-----------------------------------------------------------------------------
\* burst2stack: one SAFE per absolute orbit of the bursts a search returns

MaxStackBursts == 3   \* bursts returned by the search of burst2stack

\* The bursts a search may return: VV bursts of any subswath, burst ID and
\* absolute orbit, the granule name telling all three
FoundBursts == [swath : Swaths, burst_id : 1..MaxBurstId, absolute_orbit : 1..MaxOrbit]

FoundBurstInfo(g) ==
    [granule |-> <<g.absolute_orbit, g.swath, g.burst_id>>,
     absolute_orbit |-> g.absolute_orbit, swath |-> g.swath, polarization |-> "VV",
     burst_id |-> g.burst_id]

Reversed(list) == [k \in DOMAIN list |-> list[Len(list) + 1 - k]]

GranulesOf(infos) == {infos[k].granule : k \in DOMAIN infos}

\* line 64: the absolute orbits in the order the search returned them
AbsOrbits(infos) == drop_duplicates([k \in DOMAIN infos |-> infos[k].absolute_orbit])

\* line 68: the bursts of each absolute orbit
BurstSets(infos) ==
    [o \in DOMAIN AbsOrbits(infos) |->
        SelectSeq(infos, LAMBDA bi : bi.absolute_orbit = AbsOrbits(infos)[o])]

\* A variant of AfterValidityCheck that goes on to the next burst set whatever
\* the validator said
AfterValidityCheck_GoOn(result) == "check"

\* lines 70-71: an error of Safe.check_group_validity ends burst2stack
AfterValidityCheck(result) == IF result.status = "ok" THEN "check" ELSE "raised"

\* Up to MaxStackBursts bursts found, listed in one order or the other
InitStack ==
    /\ \E G \in SubsetsUpTo(FoundBursts, MaxStackBursts), backwards \in BOOLEAN :
         LET listing == [k \in 1..Cardinality(G) |-> FoundBurstInfo(SetToSeq(G)[k])]
         IN stack = [pc |-> "start",
                     found |-> IF backwards THEN Reversed(listing) ELSE listing,
                     burst_infos |-> <<>>,
                     burst_sets |-> <<>>,
                     i |-> 0,
                     log |-> <<>>,
                     downloaded |-> {},
                     shaped |-> {},
                     timed |-> {},
                     error |-> None]
    /\ MergerIdle
    /\ GroupIdle
    /\ ProductIdle
    /\ BurstIdIdle
    /\ HeapIdle
    /\ WriterIdle
    /\ GroupedIdle
    /\ NoiseIdle
    /\ SwathIdle
    /\ SearchIdle
    /\ DlIdle

\* lines 63-68: burst_infos, abs_orbits and burst_sets
GetBurstInfos ==
    /\ stack.pc = "start"
    /\ stack' = [stack EXCEPT !.pc = "check",
                              !.burst_infos = stack.found,
                              !.burst_sets = BurstSets(stack.found),
                              !.i = 1]
    /\ UNCHANGED outsideStack

\* lines 70-71: one turn of `for burst_infos in burst_sets`, which binds
\* burst_infos to the set it validates
ValidateBurstSet ==
    /\ stack.pc = "check"
    /\ stack.i <= Len(stack.burst_sets)
    /\ LET result == check_group_validity(stack.burst_sets[stack.i])
       IN stack' = [stack EXCEPT
                       !.burst_infos = stack.burst_sets[stack.i],
                       !.log = Append(@, <<"check_group_validity", stack.i>>),
                       !.pc = AfterValidityCheck(result),
                       !.error = IF result.status = "ok" THEN None ELSE Some(result),
                       !.i = @ + 1]
    /\ UNCHANGED outsideStack

\* line 74: download_bursts(burst_infos), once the loop is over
DownloadBursts ==
    /\ stack.pc = "check"
    /\ stack.i > Len(stack.burst_sets)
    /\ stack' = [stack EXCEPT
                    !.log = Append(@, <<"download_bursts", GranulesOf(stack.burst_infos)>>),
                    !.downloaded = @ \cup GranulesOf(stack.burst_infos),
                    !.pc = "add_shape_info"]
    /\ UNCHANGED outsideStack

\* line 75: [info.add_shape_info() for info in burst_infos]
AddShapeInfo ==
    /\ stack.pc = "add_shape_info"
    /\ stack' = [stack EXCEPT
                    !.log = Append(@, <<"add_shape_info", GranulesOf(stack.burst_infos)>>),
                    !.shaped = @ \cup GranulesOf(stack.burst_infos),
                    !.pc = "add_start_stop_utc"]
    /\ UNCHANGED outsideStack

\* line 76: [info.add_start_stop_utc() for info in burst_infos]
AddStartStopUtc ==
    /\ stack.pc = "add_start_stop_utc"
    /\ stack' = [stack EXCEPT
                    !.log = Append(@, <<"add_start_stop_utc", GranulesOf(stack.burst_infos)>>),
                    !.timed = @ \cup GranulesOf(stack.burst_infos),
                    !.pc = "create",
                    !.i = 1]
    /\ UNCHANGED outsideStack

\* lines 81-86: one turn of the loop that creates the SAFEs
CreateSafe ==
    /\ stack.pc = "create"
    /\ stack.i <= Len(stack.burst_sets)
    /\ stack' = [stack EXCEPT
                    !.burst_infos = stack.burst_sets[stack.i],
                    !.log = Append(@, <<"Safe", stack.i>>),
                    !.i = @ + 1]
    /\ UNCHANGED outsideStack

\* line 89: return safe_paths
ReturnSafePaths ==
    /\ stack.pc = "create"
    /\ stack.i > Len(stack.burst_sets)
    /\ stack' = [stack EXCEPT !.pc = "done"]
    /\ UNCHANGED outsideStack

NextStack ==
    \/ GetBurstInfos \/ ValidateBurstSet \/ DownloadBursts \/ AddShapeInfo
    \/ AddStartStopUtc \/ CreateSafe \/ ReturnSafePaths

SpecStack == InitStack /\ [][NextStack]_vars

-----------------------------------------------------------------------------
\* Properties of burst2stack (checked under SpecStack)

\* The steps that come after validation
WorkSteps == {"download_bursts", "add_shape_info", "add_start_stop_utc", "Safe"}

SomeSetInvalid ==
    \E s \in DOMAIN stack.burst_sets :
        check_group_validity(stack.burst_sets[s]).status # "ok"

\* C19: when download_bursts is called, group validation has been run on
\* every per-orbit burst set; and when some set is invalid the error is
\* raised and there is no download, no shape or time population and no SAFE
C19_ValidateBeforeDownload ==
    /\ \A k \in DOMAIN stack.log :
          stack.log[k][1] = "download_bursts" =>
              \A s \in DOMAIN stack.burst_sets :
                  \E j \in 1..(k - 1) : stack.log[j] = <<"check_group_validity", s>>
    /\ SomeSetInvalid =>
          /\ \A k \in DOMAIN stack.log : stack.log[k][1] \notin WorkSteps
          /\ stack.downloaded = {} /\ stack.shaped = {} /\ stack.timed = {}
          /\ stack.pc \in {"check", "raised"}
          /\ stack.pc = "raised" => ~IsNone(stack.error)

\* The bursts of two orbits were found; the set of the first orbit passed
\* validation, the set of the second did not, and burst2stack raised
C19_Witness ==
    /\ stack.pc = "raised"
    /\ Len(stack.burst_sets) = 2
    /\ stack.log = <<(<<"check_group_validity", 1>>), (<<"check_group_validity", 2>>)>>
    /\ Unwrap(stack.error).status = "ValueError"

-----------------------------------------------------------------------------
\* Swath.write and the product annotation it patches.  The elements of
\* product.xml are the component elements of the Product themselves (assemble
\* appends them to the tree), so the tree is the set of the names of its
\* children and what it holds is read from the components.

MaxDataValue == 1     \* the mean and the deviation of the raster are 0..MaxDataValue
MaxDataOffset == 2    \* the first line of the raster lies at byte 1..MaxDataOffset

\* measurement.py line 118, gdal.GDT_CInt16: the bytes of one sample, and so
\* of one line of a raster one sample wide
BytesPerLine == 4

\* lines 272-283: the children of the product tree
ProductTree ==
    {"adsHeader", "qualityInformation", "generalAnnotation", "imageAnnotation",
     "dopplerCentroid", "antennaPattern", "swathTiming", "geolocationGrid",
     "coordinateConversion", "swathMerging"}

\* self.swath_timing is not None: create_swath_timing has returned
HasSwathTiming(self) ==
    ~IsNone(self.swath_timing) /\ Unwrap(self.swath_timing).status = "ok"

\* product.py lines 141-145: the inputDimensionsList of the copy of the
\* first input's processingInformation, after the loop that removes from it.
\* That loop runs over slice_list, which lines 131-132 have emptied, so it
\* removes nothing; the 'count' attribute is the one that was copied
CopiedDimensionsList(self) ==
    [count |-> Len(self.inputs[1].inputDimensionsList),
     children |-> FindLists(self, "inputDimensionsList")[1]]

\* Product.create_image_annotation: the product afterwards and the error, if
\* any, that ended it
create_image_annotation(self) ==
    Bind(ListOfListElementsInit(FindLists(self, "inputDimensionsList"),
                                Some(self.start_line), self.slc_lengths),
         LAMBDA list_of_lists :
        IF list_of_lists.status # "ok" THEN [self |-> self, result |-> list_of_lists]
        ELSE Bind(create_filtered_list(list_of_lists.value, <<self.min_anx, self.max_anx>>,
                                       DefaultBuffer, None),
                  LAMBDA filtered :
            IF filtered.status # "ok" THEN [self |-> self, result |-> filtered]
            ELSE [self |-> [self EXCEPT !.image_annotation =
                               Some([data_mean |-> None,
                                     data_std |-> None,
                                     inputDimensionsList |->
                                         [CopiedDimensionsList(self) EXCEPT
                                             !.children = @ \o filtered.value.children]])],
                  result |-> Ok(None)]))

\* Product.assemble: the product afterwards and the error, if any, that
\* ended it
assemble(self) ==
    Bind(create_image_annotation(create_ads_header(self)), LAMBDA image :
    IF image.result.status # "ok" THEN image
    ELSE
    Bind(image.self, LAMBDA headed :
    Bind(create_swath_timing(headed), LAMBDA timing :
        IF timing.status # "ok" THEN [self |-> headed, result |-> timing]
        ELSE Bind([headed EXCEPT !.swath_timing = Some(timing)], LAMBDA timed :
             Bind(merge_lists(timed, "geolocationGridPointList", Some(GridLineBounds(timed))),
                  LAMBDA grid_list :
                 IF grid_list.status # "ok" THEN [self |-> timed, result |-> grid_list]
                 ELSE [self |-> [timed EXCEPT !.geolocation_grid = Some(grid_list),
                                              !.gcps = update_gcps(@, grid_list.value),
                                              !.grid_calls = @ + 1,
                                              !.xml = Some(ProductTree)],
                       result |-> Ok(None)])))))

\* Product.update_data_stats
update_data_stats(self, data_mean, data_std) ==
    IF IsNone(self.xml)
    THEN [self |-> self,
          result |-> Raise("AttributeError", "'NoneType' object has no attribute 'find'")]
    ELSE [self |-> [self EXCEPT !.image_annotation =
                       Some([Unwrap(@) EXCEPT !.data_mean = Some(data_mean),
                                              !.data_std = Some(data_std)])],
          result |-> Ok(None)]

\* lines 232-235: the byte offsets written into the bursts of the burstList
PatchedBursts(children, byte_offsets) ==
    [k \in DOMAIN children |->
        IF k <= Len(byte_offsets)
        THEN [children[k] EXCEPT !.byteOffset = Some(byte_offsets[k])]
        ELSE children[k]]

\* Product.update_burst_byte_offsets
update_burst_byte_offsets(self, byte_offsets) ==
    IF ~HasSwathTiming(self)
    THEN [self |-> self,
          result |-> Raise("ValueError",
                           "Product must be assembled before updating burst byte offsets.")]
    ELSE IF IsNone(self.xml)
    THEN [self |-> self,
          result |-> Raise("AttributeError", "'NoneType' object has no attribute 'find'")]
    ELSE IF "swathTiming" \notin Unwrap(self.xml)
    THEN [self |-> self,
          result |-> Raise("ValueError",
                           "Product must be assembled before updating burst byte offsets.")]
    ELSE LET children == Unwrap(self.swath_timing).value.children
         IN [self |-> [self EXCEPT !.swath_timing =
                          Some(Ok([Unwrap(self.swath_timing).value EXCEPT
                                      !.children = PatchedBursts(children, byte_offsets)]))],
             result |-> IF Len(byte_offsets) > Len(children)
                        THEN Raise("IndexError", "list index out of range")
                        ELSE Ok(None)]

\* measurement.py lines 90-92: the byte at which each burst starts in a raster
\* of one line per block whose first line lies at byte `first`
get_burst_byte_offsets(first, burst_length, n_bursts) ==
    [i \in 1..n_bursts |-> first + burst_length * (i - 1) * BytesPerLine]

\* What the product annotation file holds: the statistics of the image
\* annotation and the byte offsets of the burstList
ProductDocument(self) ==
    [data_mean |-> Unwrap(self.image_annotation).data_mean,
     data_std |-> Unwrap(self.image_annotation).data_std,
     byteOffset |-> [k \in DOMAIN Unwrap(self.swath_timing).value.children |->
                        Unwrap(self.swath_timing).value.children[k].byteOffset]]

NoWriter == [pc |-> "idle", done |-> 0, measurement |-> None, files |-> <<>>,
             call |-> None, error |-> None]

\* A burst group, either for a Swath or for a Product used on its own
InitWrite ==
    /\ BurstGroup({1})
    /\ writer = NoWriter
    /\ GroupedIdle
    /\ NoiseIdle
    /\ SwathIdle
    /\ SearchIdle
    /\ DlIdle
    /\ MergerIdle
    /\ GroupIdle
    /\ BurstIdIdle
    /\ HeapIdle
    /\ StackIdle

\* product.assemble() on a Product used on its own
ProductAssemble ==
    /\ writer.pc = "idle"
    /\ product.status = "ok"
    /\ IsNone(product.value.xml)
    /\ IsNone(product.value.ads_header)
    /\ \E run \in {assemble(product.value)} :
          product' = [product EXCEPT !.value = run.self]
    /\ UNCHANGED <<slcs, writer, outsideWriter>>

\* product.update_burst_byte_offsets(byte_offsets) on a Product used on its
\* own, with one byte offset per burst
CallUpdateBurstByteOffsets ==
    /\ writer.pc = "idle"
    /\ product.status = "ok"
    /\ IsNone(writer.call)
    /\ \E first \in 1..MaxDataOffset :
         \E byte_offsets \in {get_burst_byte_offsets(first, LinesPerBurst,
                                                      Len(product.value.burst_infos))} :
         \E run \in {update_burst_byte_offsets(product.value, byte_offsets)} :
            /\ product' = [product EXCEPT !.value = run.self]
            /\ writer' = [writer EXCEPT !.call = Some([byte_offsets |-> byte_offsets,
                                                       before |-> product.value,
                                                       after |-> run.self,
                                                       result |-> run.result])]
    /\ UNCHANGED <<slcs, outsideWriter>>

\* swath.assemble(): the Product is made and assembled, then the Measurement
SwathAssemble ==
    /\ writer.pc = "idle"
    /\ product.status = "new"
    /\ \E run \in {assemble(AnnotationInit(product.burst_infos, slcs,
                                              product.image_number))} :
          /\ product' = Ok(run.self)
          /\ writer' = IF run.result.status # "ok"
                       THEN [writer EXCEPT !.pc = "raised", !.error = Some(run.result)]
                       ELSE [writer EXCEPT
                                !.pc = "assembled",
                                !.measurement =
                                    Some([burst_length |-> LinesPerBurst,
                                          n_bursts |-> Len(product.burst_infos),
                                          data_mean |-> None, data_std |-> None,
                                          byte_offsets |-> <<>>])]
    /\ UNCHANGED <<slcs, outsideWriter>>

\* swath.py lines 130-136: the statements of Swath.write, in order (the
\* noise, calibration and RFI annotations are written by the last)
WriteOrder ==
    <<"measurement.write", "update_data_stats", "update_burst_byte_offsets",
      "product.write", "annotations.write">>

\* Swath.write is about to execute statement st
AtStatement(st) ==
    /\ writer.pc = "write"
    /\ writer.done < Len(WriteOrder)
    /\ WriteOrder[writer.done + 1] = st

\* The writer after a statement that did `w` to it: at the next statement, out
\* of Swath.write after the last one, or out of it with the error raised
Stepped(w, result) ==
    IF result.status # "ok"
    THEN [w EXCEPT !.pc = "raised", !.error = Some(result)]
    ELSE [w EXCEPT !.done = @ + 1,
                   !.pc = IF writer.done + 1 = Len(WriteOrder) THEN "written" ELSE "write"]

\* swath.write() is called on the assembled Swath
SwathWrite ==
    /\ writer.pc = "assembled"
    /\ writer' = [writer EXCEPT !.pc = "write"]
    /\ UNCHANGED <<slcs, product, outsideWriter>>

\* line 130: self.measurement.write(self.measurement_name)
MeasurementWrite ==
    /\ AtStatement("measurement.write")
    /\ \E data_mean \in 0..MaxDataValue, data_std \in 0..MaxDataValue,
          first \in 1..MaxDataOffset :
         LET m == Unwrap(writer.measurement)
             written == [m EXCEPT
                            !.data_mean = Some(data_mean),
                            !.data_std = Some(data_std),
                            !.byte_offsets =
                                get_burst_byte_offsets(first, m.burst_length, m.n_bursts)]
         IN writer' = Stepped([writer EXCEPT
                                  !.measurement = Some(written),
                                  !.files = Append(@, [name |-> "measurement",
                                                       holds |-> written])],
                              Ok(None))
    /\ UNCHANGED <<slcs, product, outsideWriter>>

\* line 131: self.product.update_data_stats(data_mean, data_std)
UpdateDataStats ==
    /\ AtStatement("update_data_stats")
    /\ \E m \in {Unwrap(writer.measurement)} :
       \E run \in {IF IsNone(m.data_mean)
                   THEN [self |-> product.value,
                         result |-> Raise("AttributeError",
                                          "'NoneType' object has no attribute 'real'")]
                   ELSE update_data_stats(product.value, Unwrap(m.data_mean),
                                          Unwrap(m.data_std))} :
          /\ product' = [product EXCEPT !.value = run.self]
          /\ writer' = Stepped(writer, run.result)
    /\ UNCHANGED <<slcs, outsideWriter>>

\* line 132: self.product.update_burst_byte_offsets(self.measurement.byte_offsets)
UpdateBurstByteOffsets ==
    /\ AtStatement("update_burst_byte_offsets")
    /\ \E run \in {update_burst_byte_offsets(product.value,
                                               Unwrap(writer.measurement).byte_offsets)} :
          /\ product' = [product EXCEPT !.value = run.self]
          /\ writer' = Stepped(writer, run.result)
    /\ UNCHANGED <<slcs, outsideWriter>>

\* line 133: self.product.write(self.product_name)
ProductWrite ==
    /\ AtStatement("product.write")
    /\ writer' = Stepped([writer EXCEPT
                             !.files = Append(@, [name |-> "product",
                                                  holds |-> ProductDocument(product.value)])],
                         Ok(None))
    /\ UNCHANGED <<slcs, product, outsideWriter>>

\* lines 134-137: the noise, calibration and RFI annotations are written
AnnotationsWrite ==
    /\ AtStatement("annotations.write")
    /\ writer' = Stepped([writer EXCEPT
                             !.files = Append(@, [name |-> "annotations", holds |-> None])],
                         Ok(None))
    /\ UNCHANGED <<slcs, product, outsideWriter>>

NextWrite ==
    \/ ProductNew \/ CreateSwathTiming \/ ProductAssemble \/ CallUpdateBurstByteOffsets
    \/ SwathAssemble \/ SwathWrite \/ MeasurementWrite \/ UpdateDataStats
    \/ UpdateBurstByteOffsets \/ ProductWrite \/ AnnotationsWrite

SpecWrite == InitWrite /\ [][NextWrite]_vars

-----------------------------------------------------------------------------
\* Properties of Swath.write (checked under SpecWrite)

\* The product has been assembled: its tree exists
Assembled(self) == ~IsNone(self.xml)

\* C20: Swath.write writes the product annotation only after the measurement
\* raster is written and its statistics and the byte offset of every burst
\* are in the product document; update_burst_byte_offsets on a product that
\* has not been assembled raises ValueError and changes nothing
C20_PatchBeforeProductWrite ==
    /\ \A k \in DOMAIN writer.files :
          writer.files[k].name = "product" =>
              \E j \in 1..(k - 1) :
                  /\ writer.files[j].name = "measurement"
                  /\ writer.files[k].holds.data_mean = writer.files[j].holds.data_mean
                  /\ writer.files[k].holds.data_std = writer.files[j].holds.data_std
                  /\ writer.files[k].holds.byteOffset =
                         [b \in DOMAIN writer.files[j].holds.byte_offsets |->
                             Some(writer.files[j].holds.byte_offsets[b])]
    /\ (~IsNone(writer.call) /\ ~Assembled(Unwrap(writer.call).before)) =>
          /\ Unwrap(writer.call).result.status = "ValueError"
          /\ Unwrap(writer.call).after = Unwrap(writer.call).before

-----------------------------------------------------------------------------
\* Grouping bursts by swath and polarization (utils.sort_burst_infos,
\* Safe.group_burst_infos).  A Python dict is its keys in insertion order
\* and the value held under each.

MaxGroupedBursts == 3  \* bursts handed to sort_burst_infos

\* sorted(list, key=lambda x: x.burst_id): a stable sort
RECURSIVE InsertByBurstId(_, _)
InsertByBurstId(sorted, burst_info) ==
    IF sorted = <<>> THEN <<burst_info>>
    ELSE IF sorted[Len(sorted)].burst_id <= burst_info.burst_id
         THEN Append(sorted, burst_info)
         ELSE Append(InsertByBurstId(SubSeq(sorted, 1, Len(sorted) - 1), burst_info),
                     sorted[Len(sorted)])

RECURSIVE SortByBurstId(_)
SortByBurstId(list) ==
    IF list = <<>> THEN <<>>
    ELSE InsertByBurstId(SortByBurstId(SubSeq(list, 1, Len(list) - 1)), list[Len(list)])

EmptyDict == [keys |-> <<>>, at |-> <<>>]

HasKey(dict, key) == \E k \in DOMAIN dict.keys : dict.keys[k] = key

\* dict[key]
Item(dict, key) == dict.at[CHOOSE k \in DOMAIN dict.keys : dict.keys[k] = key]

\* dict[key] = value
SetItem(dict, key, value) ==
    IF HasKey(dict, key)
    THEN [dict EXCEPT !.at[CHOOSE k \in DOMAIN dict.keys : dict.keys[k] = key] = value]
    ELSE [keys |-> Append(dict.keys, key), at |-> Append(dict.at, value)]

\* utils.py lines 139-146: one turn of the loop that fills the dict
AddBurstInfo(burst_infos_dict, burst_info) ==
    Bind(IF HasKey(burst_infos_dict, burst_info.swath)
         THEN burst_infos_dict
         ELSE SetItem(burst_infos_dict, burst_info.swath, EmptyDict),
         LAMBDA with_swath :
    Bind(IF HasKey(Item(with_swath, burst_info.swath), burst_info.polarization)
         THEN with_swath
         ELSE SetItem(with_swath, burst_info.swath,
                      SetItem(Item(with_swath, burst_info.swath),
                              burst_info.polarization, <<>>)),
         LAMBDA with_polarization :
        SetItem(with_polarization, burst_info.swath,
                SetItem(Item(with_polarization, burst_info.swath), burst_info.polarization,
                        Append(Item(Item(with_polarization, burst_info.swath),
                                    burst_info.polarization),
                               burst_info)))))

\* utils.py lines 138-146: the dict after the loop over burst_info_list
RECURSIVE FillDict(_)
FillDict(burst_info_list) ==
    IF burst_info_list = <<>> THEN EmptyDict
    ELSE Bind(FillDict(SubSeq(burst_info_list, 1, Len(burst_info_list) - 1)),
              LAMBDA filled : AddBurstInfo(filled, burst_info_list[Len(burst_info_list)]))

\* A variant of SortedPairs that pairs every swath with every polarization
\* held under it
SortedPairs_EveryPair(d) ==
    flatten([i \in DOMAIN d.keys |->
                [j \in DOMAIN d.at[i].keys |-> <<d.keys[i], d.at[i].keys[j]>>]])

\* utils.py lines 148-150: zip(swaths, polarizations), the polarizations
\* being the keys held under the first swath
SortedPairs(d) ==
    [k \in 1..(IF Len(d.keys) <= Len(d.at[1].keys) THEN Len(d.keys) ELSE Len(d.at[1].keys)) |->
        <<d.keys[k], d.at[1].keys[k]>>]

\* utils.py lines 150-151: the loop that sorts the lists of the pairs
RECURSIVE SortPairs(_, _)
SortPairs(d, pairs) ==
    IF pairs = <<>> THEN Ok(d)
    ELSE Bind(Head(pairs), LAMBDA pair :
            IF ~HasKey(Item(d, pair[1]), pair[2])
            THEN Raise("KeyError", pair[2])
            ELSE SortPairs(SetItem(d, pair[1],
                                   SetItem(Item(d, pair[1]), pair[2],
                                           SortByBurstId(Item(Item(d, pair[1]), pair[2])))),
                           Tail(pairs)))

\* utils.sort_burst_infos
sort_burst_infos(burst_info_list) ==
    Bind(FillDict(burst_info_list), LAMBDA d :
        IF d.keys = <<>> THEN Raise("IndexError", "list index out of range")
        ELSE SortPairs(d, SortedPairs(d)))

\* Safe.group_burst_infos: statement for statement the body of sort_burst_infos
group_burst_infos(burst_info_list) == sort_burst_infos(burst_info_list)

RECURSIVE SeqsUpTo(_, _)
SeqsUpTo(S, n) ==
    IF n = 0 THEN {<<>>}
    ELSE LET shorter == SeqsUpTo(S, n - 1)
         IN shorter \cup {Append(q, x) : q \in {r \in shorter : Len(r) = n - 1}, x \in S}

\* The bursts of two subswaths, in both polarizations
GroupableBursts == [swath : 1..2, polarization : Polarizations, burst_id : 1..MaxBurstId]

NoGrouping == [op |-> "none", result |-> None]

InitGrouped ==
    /\ \E list \in SeqsUpTo(GroupableBursts, MaxGroupedBursts) :
         grouped = [burst_info_list |-> list, call |-> NoGrouping]
    /\ MergerIdle
    /\ GroupIdle
    /\ ProductIdle
    /\ BurstIdIdle
    /\ HeapIdle
    /\ StackIdle
    /\ WriterIdle
    /\ NoiseIdle
    /\ SwathIdle
    /\ SearchIdle
    /\ DlIdle

\* utils.sort_burst_infos(burst_info_list)
CallSortBurstInfos ==
    /\ grouped.call = NoGrouping
    /\ grouped' = [grouped EXCEPT !.call = [op |-> "sort_burst_infos",
                                            result |-> Some(sort_burst_infos(grouped.burst_info_list))]]
    /\ UNCHANGED outsideGrouped

\* Safe.group_burst_infos(burst_info_list)
CallGroupBurstInfos ==
    /\ grouped.call = NoGrouping
    /\ grouped' = [grouped EXCEPT !.call = [op |-> "group_burst_infos",
                                            result |-> Some(group_burst_infos(grouped.burst_info_list))]]
    /\ UNCHANGED outsideGrouped

NextGrouped == CallSortBurstInfos \/ CallGroupBurstInfos

SpecGrouped == InitGrouped /\ [][NextGrouped]_vars

-----------------------------------------------------------------------------
\* Properties of the grouping (checked under SpecGrouped)

\* The bursts of the list with swath sw and polarization pol, in list order
BurstsOf(list, sw, pol) ==
    SelectSeq(list, LAMBDA b : b.swath = sw /\ b.polarization = pol)

\* C21: grouping a list of bursts returns, for every swath and polarization
\* present, the input bursts with that swath and polarization sorted ascending
\* by burst_id
C21_GroupsSortedById ==
    (grouped.call.op # "none" /\ grouped.burst_info_list # <<>>) =>
        LET result == Unwrap(grouped.call.result)
            list == grouped.burst_info_list
        IN /\ result.status = "ok"
           /\ \A k \in DOMAIN list :
                /\ HasKey(result.value, list[k].swath)
                /\ HasKey(Item(result.value, list[k].swath), list[k].polarization)
                /\ Item(Item(result.value, list[k].swath), list[k].polarization) =
                       SortByBurstId(BurstsOf(list, list[k].swath, list[k].polarization))

\* The lists under pairs that zip(swaths, polarizations) does not name are
\* left in input order
C21_UnsortedGroup ==
    /\ grouped.call.op # "none"
    /\ Unwrap(grouped.call.result).status = "ok"
    /\ \E k \in DOMAIN grouped.burst_info_list :
          LET b == grouped.burst_info_list[k]
          IN Item(Item(Unwrap(grouped.call.result).value, b.swath), b.polarization) #
                 SortByBurstId(BurstsOf(grouped.burst_info_list, b.swath, b.polarization))

\* A swath that lacks the polarization zip pairs it with ends the call
C21_KeyError ==
    /\ grouped.call.op # "none"
    /\ Unwrap(grouped.call.result).status = "KeyError"

\* Where zip(swaths, polarizations) names every pair present, every list is
\* sorted
C21_SortedWhenPaired ==
    (grouped.call.op # "none" /\ grouped.burst_info_list # <<>>) =>
        LET d == FillDict(grouped.burst_info_list)
            result == Unwrap(grouped.call.result)
        IN Range(SortedPairs(d)) = Range(SortedPairs_EveryPair(d)) =>
              /\ result.status = "ok"
              /\ \A k \in DOMAIN grouped.burst_info_list :
                    LET b == grouped.burst_info_list[k]
                    IN Item(Item(result.value, b.swath), b.polarization) =
                         SortByBurstId(BurstsOf(grouped.burst_info_list, b.swath,
                                                b.polarization))

-----------------------------------------------------------------------------
\* noise.Noise: the noise azimuth vectors.  A vector is the list of its lines,
\* the list of the values of its noiseAzimuthLut, the 'count' attribute of
\* each and its firstAzimuthLine and lastAzimuthLine.  Indexes are Python's:
\* they count from 0.

MaxNoiseLine == 3     \* the lines of a source vector are 0..MaxNoiseLine
MaxNoiseValues == 3   \* a source vector holds 1..MaxNoiseValues lines
MaxLineOffset == 2    \* line offsets are -MaxLineOffset..MaxLineOffset

\* np.where(lines == value)[0][0]: the first index that holds the value
FirstIndexOf(lines, value) ==
    MinOf({k \in DOMAIN lines : lines[k] = value}) - 1

\* A variant of get_start_stop_indexes that starts at the first line inside
\* the range
get_start_stop_indexes_Inside(lines, last_line, first_line) ==
    <<IF \E k \in DOMAIN lines : lines[k] >= first_line
      THEN FirstIndexOf(lines, MinOf({lines[k] : k \in {j \in DOMAIN lines :
                                                         lines[j] >= first_line}}))
      ELSE 0,
      IF \E k \in DOMAIN lines : lines[k] >= last_line
      THEN FirstIndexOf(lines, MinOf({lines[k] : k \in {j \in DOMAIN lines :
                                                         lines[j] >= last_line}}))
      ELSE Len(lines) - 1>>

\* Noise._get_start_stop_indexes: (first_index, last_index)
get_start_stop_indexes(lines, last_line, first_line) ==
    <<IF \E k \in DOMAIN lines : lines[k] <= first_line
      THEN FirstIndexOf(lines, MaxOf({lines[k] : k \in {j \in DOMAIN lines :
                                                         lines[j] <= first_line}}))
      ELSE 0,
      IF \E k \in DOMAIN lines : lines[k] >= last_line
      THEN FirstIndexOf(lines, MinOf({lines[k] : k \in {j \in DOMAIN lines :
                                                         lines[j] >= last_line}}))
      ELSE Len(lines) - 1>>

\* A variant of Slice that leaves out the value at last_index
Slice_Exclusive(list, first_index, last_index) ==
    SubSeq(list, first_index + 1, IF last_index <= Len(list) THEN last_index ELSE Len(list))

\* list[first_index : last_index + 1], for indexes that are not negative
Slice(list, first_index, last_index) ==
    SubSeq(list, first_index + 1, IF last_index + 1 <= Len(list) THEN last_index + 1
                                  ELSE Len(list))

\* Noise._update_azimuth_vector: the updated copy of the vector
update_azimuth_vector(az_vector, line_offset, start, stop) ==
    Bind([k \in DOMAIN az_vector.line |-> az_vector.line[k] + line_offset], LAMBDA lines :
    Bind(get_start_stop_indexes(lines, stop - start - 1, 0), LAMBDA indexes :
        [firstAzimuthLine |-> lines[indexes[1] + 1],
         lastAzimuthLine |-> lines[indexes[2] + 1],
         line |-> Slice(lines, indexes[1], indexes[2]),
         line_count |-> indexes[2] - indexes[1] + 1,
         noiseAzimuthLut |-> Slice(az_vector.noiseAzimuthLut, indexes[1], indexes[2]),
         noiseAzimuthLut_count |-> indexes[2] - indexes[1] + 1]))

\* The ascending lists of 1..n values of S
AscendingLists(S, n) ==
    {q \in SeqsUpTo(S, n) : q # <<>> /\ \A k \in 1..(Len(q) - 1) : q[k] <= q[k + 1]}

\* A source vector over the lines: value number k of its noiseAzimuthLut
\* belongs to line number k
SourceVector(lines) ==
    [firstAzimuthLine |-> lines[1],
     lastAzimuthLine |-> lines[Len(lines)],
     line |-> lines,
     line_count |-> Len(lines),
     noiseAzimuthLut |-> [k \in DOMAIN lines |-> k],
     noiseAzimuthLut_count |-> Len(lines)]

NoNoiseCall == [op |-> "none", args |-> None, result |-> None]

\* A vector of a source SLC, the offset of that SLC in the merged image and
\* the lines start_line..stop_line - 1 the bursts cover
InitNoise ==
    /\ \E lines \in AscendingLists(0..MaxNoiseLine, MaxNoiseValues),
          line_offset \in (0 - MaxLineOffset)..MaxLineOffset,
          start \in 0..1, length \in 1..MaxNoiseLine :
         noise = [az_vector |-> SourceVector(lines), line_offset |-> line_offset,
                  start_line |-> start, stop_line |-> start + length,
                  call |-> NoNoiseCall]
    /\ MergerIdle
    /\ GroupIdle
    /\ ProductIdle
    /\ BurstIdIdle
    /\ HeapIdle
    /\ StackIdle
    /\ WriterIdle
    /\ GroupedIdle
    /\ SwathIdle
    /\ SearchIdle
    /\ DlIdle

\* Noise._get_start_stop_indexes(lines, last_line, first_line) on the lines
\* of the vector, offset
GetStartStopIndexes ==
    /\ noise.call.op = "none"
    /\ \E first_line \in (0 - 1)..(MaxNoiseLine + 1), last_line \in (0 - 1)..(MaxNoiseLine + 1) :
       \E lines \in {[k \in DOMAIN noise.az_vector.line |->
                        noise.az_vector.line[k] + noise.line_offset]} :
          noise' = [noise EXCEPT !.call =
                       [op |-> "_get_start_stop_indexes",
                        args |-> [lines |-> lines, last_line |-> last_line,
                                  first_line |-> first_line],
                        result |-> get_start_stop_indexes(lines, last_line, first_line)]]
    /\ UNCHANGED outsideNoise

\* Noise._update_azimuth_vector(az_vector, line_offset, start_line, stop_line)
UpdateAzimuthVector ==
    /\ noise.call.op = "none"
    /\ noise' = [noise EXCEPT !.call =
                    [op |-> "_update_azimuth_vector",
                     args |-> None,
                     result |-> update_azimuth_vector(noise.az_vector, noise.line_offset,
                                                      noise.start_line, noise.stop_line)]]
    /\ UNCHANGED outsideNoise

NextNoise == GetStartStopIndexes \/ UpdateAzimuthVector

SpecNoise == InitNoise /\ [][NextNoise]_vars

-----------------------------------------------------------------------------
\* Properties of the noise azimuth vectors (checked under SpecNoise)

\* C22: _update_azimuth_vector cuts the lines and the noiseAzimuthLut by the
\* same index range: both hold as many values as both counts say, value
\* number k of the one belongs to line number k of the other, and
\* firstAzimuthLine and lastAzimuthLine are the first and the last line kept
C22_SameIndexRange ==
    noise.call.op = "_update_azimuth_vector" =>
        LET new == noise.call.result
            old == noise.az_vector
        IN /\ Len(new.line) = Len(new.noiseAzimuthLut)
           /\ new.line_count = Len(new.line)
           /\ new.noiseAzimuthLut_count = Len(new.line)
           /\ Len(new.line) >= 1
           /\ new.firstAzimuthLine = new.line[1]
           /\ new.lastAzimuthLine = new.line[Len(new.line)]
           /\ \A k \in DOMAIN new.line :
                new.line[k] = old.line[new.noiseAzimuthLut[k]] + noise.line_offset

\* A vector that loses values at both ends
C22_Witness ==
    /\ noise.call.op = "_update_azimuth_vector"
    /\ Len(noise.call.result.line) = 1
    /\ Len(noise.az_vector.line) = 3
    /\ noise.call.result.noiseAzimuthLut = <<2>>

\* C28: on an ascending array, first_index is the index of the greatest line
\* <= first_line (0 if there is none) and last_index that of the smallest
\* line >= last_line (the last index if there is none); first_index <=
\* last_index whenever first_line <= last_line, and the lines kept bracket
\* [first_line, last_line] whenever the array does
C28_StartStopIndexes ==
    noise.call.op = "_get_start_stop_indexes" =>
        LET lines == noise.call.args.lines
            first_line == noise.call.args.first_line
            last_line == noise.call.args.last_line
            first_index == noise.call.result[1]
            last_index == noise.call.result[2]
            below == {k \in DOMAIN lines : lines[k] <= first_line}
            above == {k \in DOMAIN lines : lines[k] >= last_line}
        IN /\ first_index \in 0..(Len(lines) - 1)
           /\ last_index \in 0..(Len(lines) - 1)
           /\ IF below = {} THEN first_index = 0
              ELSE /\ first_index + 1 \in below
                   /\ \A k \in below : lines[k] <= lines[first_index + 1]
           /\ IF above = {} THEN last_index = Len(lines) - 1
              ELSE /\ last_index + 1 \in above
                   /\ \A k \in above : lines[k] >= lines[last_index + 1]
           /\ first_line <= last_line => first_index <= last_index
           /\ (below # {} /\ above # {}) =>
                 /\ lines[first_index + 1] <= first_line
                 /\ lines[last_index + 1] >= last_line

\* The case of test_get_start_stop_indexes with first_line = 3: the range
\* starts between two lines and ends between two lines
C28_Witness ==
    /\ noise.call.op = "_get_start_stop_indexes"
    /\ noise.call.args.lines = <<0, 2, 3>>
    /\ noise.call.args.first_line = 1
    /\ noise.call.args.last_line = 2
    /\ noise.call.result = <<0, 1>>

-----------------------------------------------------------------------------
\* swath.Swath: the annotations of a swath.  An IPF version 'major.minor' is
\* the pair of the integers that self.version.split('.') gives.

MaxMajorVersion == 4   \* IPF major versions are 1..MaxMajorVersion
MinorVersions == 0..99 \* IPF minor versions have up to two digits

\* A variant of HasRfi that compares (major, minor) with (3, 40) as a tuple
HasRfi_Tuple(major_version, minor_version) ==
    \/ major_version > 3
    \/ major_version = 3 /\ minor_version >= 40

\* swath.py line 37: self.major_version >= 3 and self.minor_version >= 40
HasRfi(major_version, minor_version) == major_version >= 3 /\ minor_version >= 40

\* Swath.__init__, the part about the version
SwathInit(version) ==
    [version |-> version,
     major_version |-> version[1],
     minor_version |-> version[2],
     has_rfi |-> HasRfi(version[1], version[2]),
     rfi_name |-> IF HasRfi(version[1], version[2]) THEN Some("rfi") ELSE None,
     annotations |-> <<>>,
     assembled |-> <<>>]

\* swath.py lines 110-117: the annotations Swath.assemble creates
Annotations(self) ==
    <<"product", "noise", "calibration">> \o (IF self.has_rfi THEN <<"rfi">> ELSE <<>>)

InitSwathVersion ==
    /\ \E major \in 1..MaxMajorVersion, minor \in MinorVersions :
         swath = [status |-> "new", version |-> <<major, minor>>]
    /\ MergerIdle
    /\ GroupIdle
    /\ ProductIdle
    /\ BurstIdIdle
    /\ HeapIdle
    /\ StackIdle
    /\ WriterIdle
    /\ GroupedIdle
    /\ NoiseIdle
    /\ SearchIdle
    /\ DlIdle

\* Swath(burst_infos, safe_path, version, image_number)
SwathNew ==
    /\ swath.status = "new"
    /\ swath' = Ok(SwathInit(swath.version))
    /\ UNCHANGED outsideSwath

\* swath.assemble(): lines 119-120 call assemble on every annotation of
\* self.annotations, in order
AssembleAnnotations ==
    /\ swath.status = "ok"
    /\ swath.value.annotations = <<>>
    /\ swath' = [swath EXCEPT !.value.annotations = Annotations(swath.value),
                              !.value.assembled = Annotations(swath.value)]
    /\ UNCHANGED outsideSwath

NextSwathVersion == SwathNew \/ AssembleAnnotations

SpecSwathVersion == InitSwathVersion /\ [][NextSwathVersion]_vars

-----------------------------------------------------------------------------
\* Properties of the annotations of a swath (checked under SpecSwathVersion)

\* The RFI assembler has been invoked
RfiAssembled(self) == \E k \in DOMAIN self.assembled : self.assembled[k] = "rfi"

\* C23: a swath produces an RFI annotation exactly when its IPF version,
\* compared as the tuple (major, minor), is 3.40 or later
C23_RfiFromVersion340 ==
    (swath.status = "ok" /\ swath.value.annotations # <<>>) =>
        (RfiAssembled(swath.value) <=>
            HasRfi_Tuple(swath.value.version[1], swath.value.version[2]))

\* Within major version 3 and below the comparison is the tuple comparison,
\* and a swath without RFI assembles its three other annotations
C23_RfiUpToMajor3 ==
    (swath.status = "ok" /\ swath.value.annotations # <<>> /\ swath.value.version[1] <= 3) =>
        /\ RfiAssembled(swath.value) <=>
              HasRfi_Tuple(swath.value.version[1], swath.value.version[2])
        /\ ~RfiAssembled(swath.value) =>
              swath.value.assembled = <<"product", "noise", "calibration">>

-----------------------------------------------------------------------------
\* A source that contributes nothing (checked under SpecMerge)

\* List n of the merger, n > 1, holds no element later than every element of
\* the lists before it
AddsNothing(self, n) ==
    /\ n > 1
    /\ \A k \in DOMAIN self.inputs[n] :
          \E m \in 1..(n - 1) : \E j \in DOMAIN self.inputs[m] :
              self.inputs[n][k].time <= self.inputs[m][j].time

\* C24: when a later source holds no element strictly newer than the latest
\* timestamp already kept, the merge still succeeds and that source adds
\* nothing
C24_EmptyContributionSucceeds ==
    (lol.status = "ok" /\ ret.op = "get_unique_elements"
       /\ \E n \in DOMAIN lol.value.inputs : AddsNothing(lol.value, n)) =>
        /\ ret.result.status = "ok"
        /\ \A n \in DOMAIN lol.value.inputs :
              AddsNothing(lol.value, n) =>
                  \A k \in DOMAIN ret.result.value :
                      ret.result.value[k].src # lol.value.inputs[n][1].src

\* The merge of such sources ends in the error of max() on an empty list
C24_RaisesOnEmptyContribution ==
    (lol.status = "ok" /\ ret.op = "get_unique_elements"
       /\ \E n \in DOMAIN lol.value.inputs : AddsNothing(lol.value, n)) =>
        /\ ret.result.status = "ValueError"
        /\ ret.result.msg = "max() arg is an empty sequence"

-----------------------------------------------------------------------------
\* The bursts a SAFE is created from (checked under SpecStack)

\* The granules downloaded and given their shape and their start and stop time
Populated == (stack.downloaded \cap stack.shaped) \cap stack.timed

\* C25: every burst the search returned, of every absolute orbit, is
\* downloaded and given shape and start/stop time before any SAFE is created
C25_AllPopulatedBeforeSafe ==
    \A k \in DOMAIN stack.log :
        stack.log[k][1] = "Safe" =>
            /\ GranulesOf(stack.found) \subseteq Populated
            /\ GranulesOf(stack.burst_sets[stack.log[k][2]]) \subseteq Populated

\* What is downloaded and populated is the burst set of the last absolute
\* orbit, the one the validation loop left in burst_infos
C25_LastOrbitOnly ==
    \A k \in DOMAIN stack.log :
        stack.log[k][1] = "Safe" =>
            /\ stack.downloaded = GranulesOf(stack.burst_sets[Len(stack.burst_sets)])
            /\ stack.shaped = stack.downloaded
            /\ stack.timed = stack.downloaded

-----------------------------------------------------------------------------
\* The inputDimensionsList of an assembled product (checked under SpecWrite)

\* The inputDimensions entries merged from every input and filtered by time
MergedDimensions(self) ==
    create_filtered_list(
        ListOfListElementsInit(FindLists(self, "inputDimensionsList"),
                               Some(self.start_line), self.slc_lengths).value,
        <<self.min_anx, self.max_anx>>, DefaultBuffer, None).value.children

\* C26: in the assembled product, inputDimensionsList holds each merged,
\* time-filtered inputDimensions entry exactly once and its 'count'
\* attribute equals the number of its children
C26_DimensionsOnce ==
    (product.status = "ok" /\ Assembled(product.value)) =>
        LET list == Unwrap(product.value.image_annotation).inputDimensionsList
        IN /\ list.children = MergedDimensions(product.value)
           /\ list.count = Len(list.children)

\* What the assembled product holds: the entries of the first input, then
\* the merged entries, under the count of the first input
C26_FirstInputTwice ==
    (product.status = "ok" /\ Assembled(product.value)) =>
        LET list == Unwrap(product.value.image_annotation).inputDimensionsList
        IN /\ list.children = FindLists(product.value, "inputDimensionsList")[1]
                              \o MergedDimensions(product.value)
           /\ list.count = Len(product.value.inputs[1].inputDimensionsList)

-----------------------------------------------------------------------------
\* The ground control points of a product (checked under SpecProduct)

\* One GeoPoint per point of the list, in list order
GeoPointsOf(grid_list) ==
    [k \in DOMAIN grid_list.children |->
        [line |-> grid_list.children[k].line, pixel |-> grid_list.children[k].pixel]]

\* C27: after any number of calls of create_geolocation_grid on a Product,
\* gcps holds exactly one GeoPoint per point of the current
\* geolocationGridPointList, in list order
C27_GcpsOfCurrentGrid ==
    GridMade =>
        product.value.gcps = GeoPointsOf(Unwrap(product.value.geolocation_grid).value)

\* Every call appends the points of its list to those of the calls before
C27_GcpsAccumulate ==
    GridMade =>
        Len(product.value.gcps) =
            product.value.grid_calls
            * Len(Unwrap(product.value.geolocation_grid).value.children)

-----------------------------------------------------------------------------
\* search.add_surrounding_bursts and get_burst_group.  A burst of the search
\* is its relative burst ID; the bursts of a group share orbit, swath and
\* polarization.

MaxSearchId == 5      \* the relative burst IDs found are 1..MaxSearchId
MaxFound == 3         \* a search finds 1..MaxFound bursts
MaxMinBursts == 4     \* min_bursts is 0..MaxMinBursts

\* A variant of Extra that rounds half the deficit up
Extra_Ceiling(min_bursts, min_id, max_id) ==
    (min_bursts - (max_id - min_id + 1) + 1) \div 2

\* search.py line 75: np.floor((min_bursts - (max_id - min_id + 1)) / 2)
Extra(min_bursts, min_id, max_id) == (min_bursts - (max_id - min_id + 1)) \div 2

\* search.py lines 69-81: the burst IDs add_surrounding_bursts asks for,
\* range(min_id, max_id + 1)
add_surrounding_bursts(ids, min_bursts) ==
    Bind(Extra(min_bursts, MinOf(Range(ids)), MaxOf(Range(ids))), LAMBDA extra :
    Bind(MinOf(Range(ids)) - extra, LAMBDA min_id :
    Bind(MaxOf(Range(ids)) + extra, LAMBDA max_id :
        IF max_id - min_id + 1 # min_bursts
        THEN RangeList(min_id, max_id + 2)
        ELSE RangeList(min_id, max_id + 1))))

NoSearch == [op |-> "none", requested |-> None, result |-> None]

\* The bursts a search found for one orbit, swath and polarization, in any
\* order, and the min_bursts asked for
InitSearch ==
    /\ \E ids \in SeqsUpTo(1..MaxSearchId, MaxFound), min_bursts \in 0..MaxMinBursts :
         /\ ids # <<>>
         /\ search = [ids |-> ids, min_bursts |-> min_bursts, call |-> NoSearch]
    /\ MergerIdle
    /\ GroupIdle
    /\ ProductIdle
    /\ BurstIdIdle
    /\ HeapIdle
    /\ StackIdle
    /\ WriterIdle
    /\ GroupedIdle
    /\ NoiseIdle
    /\ SwathIdle
    /\ DlIdle

\* search.py lines 125-131 of get_burst_group: the group is returned as it
\* is, or the surrounding bursts are asked for and the archive answers with
\* the bursts asked for or with all of them but the last
GetBurstGroup ==
    /\ search.call = NoSearch
    /\ IF Len(search.ids) < search.min_bursts
       THEN \E requested \in {add_surrounding_bursts(search.ids, search.min_bursts)} :
            \E found \in {requested, SubSeq(requested, 1, Len(requested) - 1)} :
               search' = [search EXCEPT !.call =
                             [op |-> "get_burst_group",
                              requested |-> Some(requested),
                              result |-> IF Len(found) < search.min_bursts
                                         THEN Raise("ValueError", "Less than min_bursts bursts found")
                                         ELSE Ok(found)]]
       ELSE search' = [search EXCEPT !.call = [op |-> "get_burst_group",
                                               requested |-> None,
                                               result |-> Ok(search.ids)]]
    /\ UNCHANGED outsideSearch

NextSearch == GetBurstGroup

SpecSearch == InitSearch /\ [][NextSearch]_vars

-----------------------------------------------------------------------------
\* Properties of the search for surrounding bursts (checked under SpecSearch)

\* The range asked for: min_bursts consecutive IDs that hold every ID of the
\* group, the group's range extended by the same number on both sides and by
\* one more at the upper end when the deficit is odd
RangeAskedFor(ids, min_bursts, requested) ==
    LET min_id == MinOf(Range(ids))
        max_id == MaxOf(Range(ids))
        deficit == min_bursts - (max_id - min_id + 1)
    IN /\ Len(requested) = min_bursts
       /\ \A k \in 1..(Len(requested) - 1) : requested[k + 1] = requested[k] + 1
       /\ Range(ids) \subseteq Range(requested)
       /\ min_id - requested[1] = deficit \div 2
       /\ requested[Len(requested)] - max_id = (deficit \div 2) + (deficit % 2)

\* C29: whenever add_surrounding_bursts is called with fewer than min_bursts
\* bursts it asks for exactly min_bursts consecutive burst IDs that hold
\* every input burst ID
C29_SurroundingRange ==
    (search.call.op # "none" /\ ~IsNone(search.call.requested)) =>
        RangeAskedFor(search.ids, search.min_bursts, Unwrap(search.call.requested))

\* The same for the groups whose IDs span no more than min_bursts IDs
C29_SurroundingRangeOfNarrowGroup ==
    (search.call.op # "none" /\ ~IsNone(search.call.requested)
       /\ MaxOf(Range(search.ids)) - MinOf(Range(search.ids)) + 1 <= search.min_bursts) =>
        RangeAskedFor(search.ids, search.min_bursts, Unwrap(search.call.requested))

\* A group with a gap: its IDs span more than min_bursts IDs and the range
\* asked for leaves a burst of the group out
C29_GroupWithGap ==
    /\ search.call.op # "none"
    /\ ~IsNone(search.call.requested)
    /\ ~(Range(search.ids) \subseteq Range(Unwrap(search.call.requested)))

-----------------------------------------------------------------------------
\* download.download_async: a producer and a consumer coroutine on one event
\* loop, joined by an unbounded asyncio.Queue.  Path k of url_dict is k and
\* its URL is UrlOf(k); the response to a URL is the record of that URL.

MaxUrls == 2          \* url_dict holds 0..MaxUrls paths

UrlOf(path) == 10 + path

GetOutcomes == {"ok", "error"}
WriteOutcomes == {"ok", "no_directory", "read_error"}

\* download.py line 138: the (None, None) the producer puts last
Sentinel == [response |-> None, path |-> None]

\* download.py lines 135, 137: the items of url_dict in dict order
Items(url_dict) == [k \in 1..Len(url_dict) |-> [response |-> Some([url |-> UrlOf(url_dict[k])]), path |-> Some(url_dict[k])]]

\* A queue that hands out its newest item first
QueueGet_Lifo(queue) == [item |-> queue[Len(queue)], rest |-> SubSeq(queue, 1, Len(queue) - 1)]

\* download.py line 145, asyncio.Queue.get: the oldest item of the queue
QueueGet(queue) == [item |-> Head(queue), rest |-> Tail(queue)]

\* download.py lines 113-122: the response to the URL, or the error of
\* raise_for_status or of the retries running out
retry_get_response_async(outcome, url) ==
    IF outcome = "ok" THEN Ok([url |-> url]) ELSE Raise("ClientResponseError", "request failed")

\* download.py lines 125-131: the file is written, or the directory is
\* missing, or reading the body fails after the file was opened
download_response_async(outcome, item) ==
    CASE outcome = "ok" -> Ok(item)
      [] outcome = "no_directory" -> Raise("ValueError", "Error downloading, directory not found")
      [] OTHER -> Raise("ClientPayloadError", "response payload is not completed")

\* The paths in any order without repetition (the keys of a dict)
UrlDicts == UNION {{ps \in SeqsUpTo(1..MaxUrls, MaxUrls) : Len(ps) = n /\ Cardinality(Range(ps)) = n} : n \in 0..MaxUrls}

\* download.py lines 153-157 up to the gather: an empty queue and the two
\* coroutines scheduled; get and write say what the server and the file
\* system do for each path
InitDownload ==
    /\ \E url_dict \in UrlDicts :
       \E get \in [Range(url_dict) -> GetOutcomes], write \in [Range(url_dict) -> WriteOutcomes] :
          dl = [url_dict |-> url_dict, get |-> get, write |-> write,
                queue |-> <<>>,
                producer |-> [pc |-> "loop", i |-> 1, response |-> None],
                consumer |-> [pc |-> "get", item |-> None],
                written |-> <<>>, partial |-> {},
                gather |-> "running"]
    /\ MergerIdle
    /\ GroupIdle
    /\ ProductIdle
    /\ BurstIdIdle
    /\ HeapIdle
    /\ StackIdle
    /\ WriterIdle
    /\ GroupedIdle
    /\ NoiseIdle
    /\ SwathIdle
    /\ SearchIdle

\* download.py lines 135-136: the producer awaits the response to the next URL
ProducerGetResponse ==
    /\ dl.gather = "running"
    /\ dl.producer.pc = "loop"
    /\ dl.producer.i <= Len(dl.url_dict)
    /\ \E got \in {retry_get_response_async(dl.get[dl.url_dict[dl.producer.i]], UrlOf(dl.url_dict[dl.producer.i]))} :
          dl' = [dl EXCEPT !.producer =
                    IF got.status = "ok"
                    THEN [@ EXCEPT !.pc = "put", !.response = Some(got.value)]
                    ELSE [@ EXCEPT !.pc = "raised"]]
    /\ UNCHANGED outsideDl

\* download.py line 137: the producer puts (response, path) on the queue
ProducerPut ==
    /\ dl.gather = "running"
    /\ dl.producer.pc = "put"
    /\ dl' = [dl EXCEPT !.queue = Append(@, [response |-> dl.producer.response,
                                             path |-> Some(dl.url_dict[dl.producer.i])]),
                        !.producer = [pc |-> "loop", i |-> @.i + 1, response |-> None]]
    /\ UNCHANGED outsideDl

\* download.py lines 138-139: after the last item the producer puts the
\* sentinel and is done
ProducerPutSentinel ==
    /\ dl.gather = "running"
    /\ dl.producer.pc = "loop"
    /\ dl.producer.i > Len(dl.url_dict)
    /\ dl' = [dl EXCEPT !.queue = Append(@, Sentinel), !.producer.pc = "done"]
    /\ UNCHANGED outsideDl

\* download.py lines 144-147: the consumer waits for an item and stops when
\* its path is None
ConsumerGet ==
    /\ dl.gather = "running"
    /\ dl.consumer.pc = "get"
    /\ dl.queue # <<>>
    /\ \E got \in {QueueGet(dl.queue)} :
          dl' = [dl EXCEPT !.queue = got.rest,
                           !.consumer = IF IsNone(got.item.path)
                                        THEN [pc |-> "done", item |-> Some(got.item)]
                                        ELSE [pc |-> "write", item |-> Some(got.item)]]
    /\ UNCHANGED outsideDl

\* download.py lines 148-149: the consumer writes the response to the path
ConsumerWrite ==
    /\ dl.gather = "running"
    /\ dl.consumer.pc = "write"
    /\ \E item \in {Unwrap(dl.consumer.item)} :
       \E done \in {download_response_async(dl.write[Unwrap(item.path)], item)} :
          dl' = [dl EXCEPT !.written = IF done.status = "ok" THEN Append(@, item) ELSE @,
                           !.partial = IF done.status = "ClientPayloadError"
                                       THEN @ \cup {Unwrap(item.path)} ELSE @,
                           !.consumer = IF done.status = "ok"
                                        THEN [pc |-> "get", item |-> None]
                                        ELSE [@ EXCEPT !.pc = "raised"]]
    /\ UNCHANGED outsideDl

Stopped(pc) == pc \in {"done", "raised", "cancelled"}

\* download.py lines 156-157: an exception of one coroutine leaves the
\* gather, and the coroutine still pending is cancelled when the loop closes
GatherRaise ==
    /\ dl.gather = "running"
    /\ dl.producer.pc = "raised" \/ dl.consumer.pc = "raised"
    /\ dl' = [dl EXCEPT !.gather = "raised",
                        !.producer.pc = IF Stopped(@) THEN @ ELSE "cancelled",
                        !.consumer.pc = IF Stopped(@) THEN @ ELSE "cancelled"]
    /\ UNCHANGED outsideDl

\* download.py line 157: the gather returns when both coroutines are done
GatherReturn ==
    /\ dl.gather = "running"
    /\ dl.producer.pc = "done"
    /\ dl.consumer.pc = "done"
    /\ dl' = [dl EXCEPT !.gather = "returned"]
    /\ UNCHANGED outsideDl

NextDownload ==
    \/ ProducerGetResponse
    \/ ProducerPut
    \/ ProducerPutSentinel
    \/ ConsumerGet
    \/ ConsumerWrite
    \/ GatherRaise
    \/ GatherReturn

SpecDownload == InitDownload /\ [][NextDownload]_vars

\* The event loop runs every coroutine that is ready
SpecDownloadLive ==
    /\ SpecDownload
    /\ WF_vars(ProducerGetResponse)
    /\ WF_vars(ProducerPut)
    /\ WF_vars(ProducerPutSentinel)
    /\ WF_vars(ConsumerGet)
    /\ WF_vars(ConsumerWrite)
    /\ WF_vars(GatherRaise)
    /\ WF_vars(GatherReturn)

-----------------------------------------------------------------------------
\* Properties of download_async (checked under SpecDownloadLive)

AllResponses == \A path \in Range(dl.url_dict) : dl.get[path] = "ok"

AllWritten == \A path \in Range(dl.url_dict) : dl.write[path] = "ok"

IsPrefix(s, t) == Len(s) <= Len(t) /\ s = SubSeq(t, 1, Len(s))

\* Each pair written at most once, in the producer's order, none skipped
WrittenInOrder == IsPrefix(dl.written, Items(dl.url_dict))

\* The consumer stops only on the sentinel, which the producer put after its
\* last item, with every pair written and nothing left to write
StopsOnSentinel ==
    dl.consumer.pc = "done" =>
        /\ dl.consumer.item = Some(Sentinel)
        /\ dl.producer.pc = "done"
        /\ dl.written = Items(dl.url_dict)
        /\ dl.queue = <<>>

BothDone ==
    /\ dl.producer.pc = "done"
    /\ dl.consumer.pc = "done"
    /\ dl.written = Items(dl.url_dict)

====
